---- MODULE Spec2Model ----
(***************************************************************************)
(* GitHub data-synchronization engine: the sync orchestrator (SyncService) *)
(* with its persistence layer (BaseRepository.upsert / create on the       *)
(* natural keys), the progress map, the delayed progress removal and the   *)
(* Integration record.                                                     *)
(*                                                                         *)
(* A full-sync run is a process; every await that touches the database,    *)
(* the remote API or the progress map is a step boundary, so two runs      *)
(* interleave between the stages.  Remote calls and database writes may    *)
(* throw; a bounded budget of such faults is injected nondeterministically.*)
(***************************************************************************)
EXTENDS Integers, Sequences, FiniteSets, TLC

VARIABLES
  organizations,  \* Organization collection (set of documents)
  repos,          \* Repo collection
  commits,        \* Commit collection
  pulls,          \* Pull collection
  issues,         \* Issue collection
  changelogs,     \* Changelog collection
  users,          \* User collection
  integration,    \* Integration documents: syncStatus, lastSyncAt, lastError
  syncProgress,   \* SyncService.syncProgress, one in-memory Map per process
  redis,          \* the shared store, key sync:progress:<integrationId>
  timers,         \* pending setTimeout(clearSyncProgress) callbacks
  now,            \* wall clock, in minutes
  timeline,       \* remote: number of timeline events of each repository's issue
  run,            \* the full-sync runs (program counter, locals, history)
  faultsLeft,     \* faults that may still be injected
  callsLeft,      \* single-stage calls that may still be made
  fetched,        \* history: timeline events returned by a fetch so far
  retry,          \* one call of retryWithBackoff / retryGitHubCall
  listing,        \* one call of a GitHubApiService method
  batch,          \* one call of processBatch
  fanout,         \* one call of parallelProcessSafe
  quota,          \* the rate-limit snapshots, the clock in seconds, the last check
  retention,      \* the retention sweeper: the store it found, its last report
  job             \* one job of a stage queue of the worker

syncVars == <<organizations, repos, commits, pulls, issues, changelogs, users,
              integration, syncProgress, redis, timers, now, timeline, run,
              faultsLeft, callsLeft, fetched>>

\* the utility calls modelled on their own
utilityVars == <<retry, listing, batch, fanout, quota, retention>>
aux == <<utilityVars, job>>

\* what a call of one utility leaves alone
besideRetry == <<syncVars, listing, batch, fanout, quota, retention, job>>
besideListing == <<syncVars, retry, batch, fanout, quota, retention, job>>
besideBatch == <<syncVars, retry, listing, fanout, quota, retention, job>>
besideFanout == <<syncVars, retry, listing, batch, quota, retention, job>>
besideQuota == <<syncVars, retry, listing, batch, fanout, retention, job>>

vars == <<syncVars, aux>>

store == <<organizations, repos, commits, pulls, issues, changelogs, users>>

----------------------------------------------------------------------------
(* Bounds of the model *)

\* faults (a remote call or a database call throwing) injected per behaviour
MaxFaults == 2
\* calls of a single stage (a stage job, POST /api/sync/...) per behaviour
MaxCalls == 1
\* single-stage calls per behaviour of IssueSpec
MaxIssueCalls == 4
\* the clock stops here
MaxTime == 6
\* timeline events a remote issue can grow to
MaxEvents == 2
\* cancel requests per behaviour of CancelSpec
MaxCancels == 2
\* the largest maxAttempts option a retried call is given
MaxAttempts == 3
\* Math.random() takes the values j / JitterSteps, j in 0 .. JitterSteps - 1
JitterSteps == 4
\* the longest list handed to processBatch
MaxItems == 3
\* the largest organization, in members
MaxMembers == 6
\* the day of the retention sweeps, in days since the first sync
Today == 1000
\* calls of runFullCleanup per behaviour
MaxCleanups == 1

\* jobs added to the stage queues
MaxJobs == 2
\* the clock of the rate-limit tracker stops here, in seconds
MaxClock == 160
\* a remote collection has up to this many full pages, or ManyPages of them
MaxFullPages == 11
ManyPages == 1200

\* setTimeout(..., 5 * 60 * 1000), in minutes
GraceMinutes == 5
\* per_page: 100
PerPage == 100
\* maxAttempts: options.maxAttempts || 3
GitHubMaxAttempts == 3
\* processBatch: concurrency = 5
DefaultConcurrency == 5

\* syncJobOptions.attempts
JobAttempts == 3
\* Math.max(ttl, 60)
MinTtl == 60


----------------------------------------------------------------------------
(* The remote service as the two tokens see it *)

Integrations == {"i1", "i2"}
Runs == {"r1", "r2"}
Procs == {"api", "worker"}
\* a direct call of syncAll runs in the API process (sync.controller), a
\* full-sync job runs syncAllWithProgress in the worker process (sync.worker)
ProcOf == [direct |-> "api", queued |-> "worker"]
\* the status poller is the API process (GET /api/sync/progress/:id)
PollerProc == "api"

AuthenticatedUser == [i1 |-> [id |-> 11, login |-> "alice"],
                      i2 |-> [id |-> 12, login |-> "bob"]]
UserOrganizations == [i1 |-> <<"acme">>, i2 |-> <<"acme">>]
OrganizationDetails == [acme |-> [id |-> 20, login |-> "acme"]]
Owners == {"acme", "alice", "bob"}
OrgRepositories ==
  [acme  |-> <<[id |-> 101, full_name |-> "acme/api"]>>,
   alice |-> <<[id |-> 102, full_name |-> "alice/dot"]>>,
   bob   |-> <<>>]
FullNames == {"acme/api", "alice/dot"}
RemoteCommits == [f \in FullNames |-> IF f = "acme/api" THEN <<"c1">> ELSE <<"c2">>]
RemotePulls == [f \in FullNames |-> IF f = "acme/api" THEN <<1>> ELSE <<>>]
RemoteIssues == [f \in FullNames |-> <<1>>]
\* remote ids of the first n timeline events of issue #1 of repository f
EventBase == [f \in FullNames |-> IF f = "acme/api" THEN 100 ELSE 200]
RemoteTimeline(f, n) == [k \in 1..n |-> EventBase[f] + k]
OrganizationMembers == [acme |-> <<"alice", "bob">>]
UserDetails == [alice |-> [id |-> 11, login |-> "alice"],
                bob   |-> [id |-> 12, login |-> "bob"]]

Range(s) == {s[k] : k \in DOMAIN s}

----------------------------------------------------------------------------
(* Persistence layer *)

Matches(doc, cond) == \A f \in DOMAIN cond : doc[f] = cond[f]

Has(coll, cond) == \E d \in coll : Matches(d, cond)

\* model.findOne(conditions); only used where Has(coll, cond)
FindOne(coll, cond) == CHOOSE d \in coll : Matches(d, cond)

\* model.find(conditions)
Find(coll, cond) == {d \in coll : Matches(d, cond)}

\* a fresh _id: the key and the number of documents that already carry it
NewId(coll, cond, key) == <<key, Cardinality(Find(coll, cond))>>

\* a plausible slip: always insert, never update
UpsertInsertOnly(coll, cond, data, key) ==
  coll \cup {data @@ [id |-> NewId(coll, cond, key)]}

\* BaseRepository.upsert: findOneAndUpdate(conditions, {$set: data},
\* {upsert: true, new: true}); atomic in the database
Upsert(coll, cond, data, key) ==
  IF Has(coll, cond)
  THEN LET old == FindOne(coll, cond)
       IN (coll \ {old}) \cup {data @@ old}
  ELSE coll \cup {data @@ [id |-> NewId(coll, cond, key)]}

\* the document an upsert returns ({new: true})
Upserted(coll, cond) == FindOne(coll, cond)

\* changelogSchema.index({integrationId, issueId, githubId}, {unique: true}):
\* saving a second document with the same triple throws E11000
ChangelogUnique == {"integrationId", "issueId", "githubId"}

CreateThrows(coll, data) ==
  \E d \in coll : \A f \in ChangelogUnique : d[f] = data[f]

\* BaseRepository.create: new model(data).save()
Create(coll, data) == coll \cup {data}

----------------------------------------------------------------------------
(* Stages of the orchestrator, as functions of the collections *)

\* syncOrganizations, lines 606-627: the authenticated account, type 'User'
UpsertUserOrganization(orgs, i) ==
  LET u == AuthenticatedUser[i]
  IN Upsert(orgs, [githubId |-> u.id],
            [integrationId |-> i, githubId |-> u.id, login |-> u.login,
             type |-> "User"],
            <<"org", u.id>>)

\* syncOrganizations, lines 631-654: one organization of the token
UpsertOrganization(orgs, i, login) ==
  LET o == OrganizationDetails[login]
  IN Upsert(orgs, [githubId |-> o.id],
            [integrationId |-> i, githubId |-> o.id, login |-> o.login,
             type |-> "Organization"],
            <<"org", o.id>>)

\* syncRepositories, lines 672-719: list the owner's repositories, link each
\* to the stored Organization with that login (any integration's), upsert
RECURSIVE UpsertRepos(_, _, _, _)
UpsertRepos(rs, i, orgId, list) ==
  IF list = <<>> THEN rs
  ELSE LET r == Head(list)
       IN UpsertRepos(
            Upsert(rs, [githubId |-> r.id],
                   [integrationId |-> i, organizationId |-> orgId,
                    githubId |-> r.id, fullName |-> r.full_name],
                   <<"repo", r.id>>),
            i, orgId, Tail(list))

SyncRepositories(rs, orgs, i, owner) ==
  LET orgId == IF Has(orgs, [login |-> owner])
               THEN FindOne(orgs, [login |-> owner]).id
               ELSE <<>>
  IN UpsertRepos(rs, i, orgId, OrgRepositories[owner])

\* syncCommits, lines 730-792
RECURSIVE UpsertCommits(_, _, _, _)
UpsertCommits(cs, i, repoId, list) ==
  IF list = <<>> THEN cs
  ELSE UpsertCommits(
         Upsert(cs, [sha |-> Head(list)],
                [integrationId |-> i, repoId |-> repoId, sha |-> Head(list)],
                <<"commit", Head(list)>>),
         i, repoId, Tail(list))

SyncCommits(cs, rs, i, fullName) ==
  IF ~Has(rs, [fullName |-> fullName]) THEN cs
  ELSE UpsertCommits(cs, i, FindOne(rs, [fullName |-> fullName]).id,
                     RemoteCommits[fullName])

\* syncPulls, lines 804-884
RECURSIVE UpsertPulls(_, _, _, _)
UpsertPulls(ps, i, repoId, list) ==
  IF list = <<>> THEN ps
  ELSE UpsertPulls(
         Upsert(ps, [repoId |-> repoId, number |-> Head(list)],
                [integrationId |-> i, repoId |-> repoId, number |-> Head(list)],
                <<"pull", repoId, Head(list)>>),
         i, repoId, Tail(list))

SyncPulls(ps, rs, i, fullName) ==
  IF ~Has(rs, [fullName |-> fullName]) THEN ps
  ELSE UpsertPulls(ps, i, FindOne(rs, [fullName |-> fullName]).id,
                   RemotePulls[fullName])

\* syncChangelogs, lines 970-1014: create one Changelog per event, in order;
\* the first create that throws leaves the loop (catch at line 1017)
RECURSIVE CreateChangelogs(_, _, _, _)
CreateChangelogs(cl, i, issueId, events) ==
  IF events = <<>> THEN cl
  ELSE LET d == [integrationId |-> i, issueId |-> issueId,
                 githubId |-> Head(events)]
       IN IF CreateThrows(cl, d) THEN cl
          ELSE CreateChangelogs(Create(cl, d), i, issueId, Tail(events))

\* syncIssues, lines 896-958: upsert each issue, then sync its timeline;
\* timelineOk = FALSE: getIssueTimeline threw (swallowed by syncChangelogs)
RECURSIVE UpsertIssues(_, _, _, _, _, _, _)
UpsertIssues(is, cl, i, repoId, list, events, timelineOk) ==
  IF list = <<>> THEN [issues |-> is, changelogs |-> cl]
  ELSE LET cond == [repoId |-> repoId, number |-> Head(list)]
           is2 == Upsert(is, cond,
                         [integrationId |-> i, repoId |-> repoId,
                          number |-> Head(list)],
                         <<"issue", repoId, Head(list)>>)
           saved == Upserted(is2, cond)
           cl2 == IF timelineOk
                  THEN CreateChangelogs(cl, i, saved.id, events)
                  ELSE cl
       IN UpsertIssues(is2, cl2, i, repoId, Tail(list), events, timelineOk)

SyncIssues(is, cl, rs, i, fullName, n, timelineOk) ==
  IF ~Has(rs, [fullName |-> fullName]) THEN [issues |-> is, changelogs |-> cl]
  ELSE UpsertIssues(is, cl, i, FindOne(rs, [fullName |-> fullName]).id,
                    RemoteIssues[fullName], RemoteTimeline(fullName, n),
                    timelineOk)

\* syncUsers, lines 1026-1071: members of every organization-typed
\* Organization document of the integration
RECURSIVE UpsertUsers(_, _, _, _)
UpsertUsers(us, i, orgId, members) ==
  IF members = <<>> THEN us
  ELSE LET d == UserDetails[Head(members)]
       IN UpsertUsers(
            Upsert(us, [githubId |-> d.id],
                   [integrationId |-> i, organizationId |-> orgId,
                    githubId |-> d.id, login |-> d.login],
                   <<"user", d.id>>),
            i, orgId, Tail(members))

\* Promise.allSettled(items.map(processor)): the worker of an item in `failed`
\* rejects (the reason names the item), the others fulfil with their value
AllSettled(items, failed) ==
  [k \in DOMAIN items |->
     IF items[k] \in failed
     THEN [status |-> "rejected", value |-> "-", reason |-> items[k]]
     ELSE [status |-> "fulfilled", value |-> items[k], reason |-> "-"]]

IsFulfilled(r) == r.status = "fulfilled"
IsRejected(r) == r.status = "rejected"
Values(rs) == [k \in DOMAIN rs |-> rs[k].value]
Reasons(rs) == [k \in DOMAIN rs |-> rs[k].reason]

\* parallelProcess: Promise.all, which rejects with the first reason
ParallelProcess(items, failed) ==
  LET rs == AllSettled(items, failed)
  IN IF SelectSeq(rs, IsRejected) = <<>>
     THEN [results |-> Values(rs), errors |-> <<>>]
     ELSE [results |-> <<>>, errors |-> <<Head(SelectSeq(rs, IsRejected)).reason>>]

\* parallelProcessSafe(items, processor)
ParallelProcessSafe(items, failed) ==
  LET rs == AllSettled(items, failed)
  IN [results |-> Values(SelectSeq(rs, IsFulfilled)),
      errors |-> Reasons(SelectSeq(rs, IsRejected))]

\* the organizations whose members syncUsers fetches
MemberOrgs(orgs, i) ==
  {o \in Find(orgs, [integrationId |-> i]) : o.type = "Organization"}

RECURSIVE SyncUsersOf(_, _, _, _)
SyncUsersOf(us, i, orgSet, failed) ==
  IF orgSet = {} THEN us
  ELSE LET o == CHOOSE x \in orgSet : TRUE
       IN SyncUsersOf(
            UpsertUsers(us, i, o.id,
                        ParallelProcessSafe(OrganizationMembers[o.login],
                                            failed).results),
            i, orgSet \ {o}, failed)

\* syncUsers when getUser fails for the logins in `failed`
SyncUsers(us, orgs, i, failed) == SyncUsersOf(us, i, MemberOrgs(orgs, i), failed)

\* history: what parallelProcessSafe returned for each organization
Profiles(orgs, i, failed) ==
  {[org |-> o.login, failed |-> failed,
    got |-> ParallelProcessSafe(OrganizationMembers[o.login], failed)] :
     o \in MemberOrgs(orgs, i)}

----------------------------------------------------------------------------
(* Progress map, Integration record *)

Snapshot(status, message, current, total) ==
  [status |-> status, message |-> message, current |-> current, total |-> total]

\* getSyncProgress: the in-memory Map of the process that serves the call;
\* <<>> stands for null
GetSyncProgress(sp, proc, i) == sp[proc][i]

\* updateSyncProgress: Map.set in the calling process, setex in the shared store
SetSyncProgress(sp, proc, i, snap) == [sp EXCEPT ![proc][i] = <<snap>>]

\* clearSyncProgress: Map.delete in the calling process, del in the shared store
ClearSyncProgress(sp, proc, i) == [sp EXCEPT ![proc][i] = <<>>]

RepoMessage == [f \in FullNames |->
  IF f = "acme/api" THEN "Syncing repository acme/api"
  ELSE "Syncing repository alice/dot"]

\* error.message as it reaches the catch of syncAll
ErrorMessage ==
  [lookup        |-> "Integration not found",
   organizations |-> "Failed to sync organizations",
   repositories  |-> "Failed to sync organizations: Failed to sync repositories",
   listRepos     |-> "Find operation failed",
   commits       |-> "Failed to get commits",
   pulls         |-> "Failed to get pull requests",
   issues        |-> "Failed to get issues",
   lastSync      |-> "Update last sync failed"]

\* The orchestrator calls integrationService.getIntegrationById and
\* integrationService.updateLastSync; IntegrationService as it stands defines
\* neither. Both follow the specification: a lookup that yields the integration
\* or nothing, and a write that stamps lastSyncAt.
GetIntegrationById(ig, i, o) == IF o = "ok" THEN <<ig[i]>> ELSE <<>>

UpdateLastSync(ig, i, t) == [ig EXCEPT ![i].lastSyncAt = t]

----------------------------------------------------------------------------
(* A full-sync run: syncAll (direct) / syncAllWithProgress (queued) *)

\* the integrations a run may be started for, and the ways to invoke it
RunIntegrations == [r1 |-> {"i1"}, r2 |-> {"i1", "i2"}]
RunModes == [r1 |-> {"direct"}, r2 |-> {"direct", "queued"}]

\* the order in which syncAll awaits its stages: syncOrganizations (which runs
\* syncRepositories per owner), the per-repository loop, syncUsers, and the
\* last-sync stamp with the final snapshot
StageOrderUsersFirst == <<"organizations", "users", "repositories", "finalize">>

StageOrder == <<"organizations", "repositories", "users", "finalize">>

FirstSub == [organizations |-> "user", repositories |-> "list",
             users |-> "-", finalize |-> "-"]

StageIndex(s) == CHOOSE k \in DOMAIN StageOrder : StageOrder[k] = s

\* the run record on entering the stage that follows s
EnterNext(r, s) ==
  LET k == StageIndex(s) + 1
  IN [r EXCEPT !.pc = StageOrder[k], !.sub = FirstSub[StageOrder[k]]]

\* the catch blocks of syncCommits / syncPulls / syncIssues log and return
SwallowsAllButCommits(stage) == stage \in {"pulls", "issues"}

SwallowsStageFailure(stage) == stage \in {"commits", "pulls", "issues"}

\* a job of a stage queue, as Bull keeps it
IdleJob ==
  [pc |-> "idle", kind |-> "-", integ |-> "i1", target |-> "-",
   attemptsMade |-> 0, returnvalue |-> <<>>, failedReason |-> "-",
   \* history: how the stage ended in the last attempt
   stage |-> "-"]

IdleRun ==
  [pc |-> "idle", sub |-> "-", integ |-> "i1", mode |-> "direct", oi |-> 0,
   repoList |-> <<>>, current |-> 0, total |-> 0, startedAt |-> 0,
   endedAt |-> 0,
   \* history of the run
   outcome |-> <<>>, snaps |-> <<>>,
   orgsUpserted |-> {}, ownersSynced |-> <<>>, usersRan |-> FALSE,
   stamped |-> FALSE, fatal |-> "-", cancels |-> 0, profiles |-> {}]

\* the outcomes a step may take: "ok", or one of `failures` while the fault
\* budget lasts
Outcomes(failures) == {"ok"} \cup (IF faultsLeft > 0 THEN failures ELSE {})

Charge(o) == faultsLeft' = IF o = "ok" THEN faultsLeft ELSE faultsLeft - 1

\* the run p writes the snapshots ss (in order) and becomes r
Emit(p, r, ss) ==
  LET n == Len(ss)
  IN /\ syncProgress' = IF n = 0 THEN syncProgress
                        ELSE SetSyncProgress(syncProgress, ProcOf[r.mode], r.integ, ss[n])
     /\ redis' = IF n = 0 THEN redis ELSE [redis EXCEPT ![r.integ] = <<ss[n]>>]
     /\ run' = [run EXCEPT ![p] =
                  [r EXCEPT !.snaps = @ \o ss]]

\* what the catch of syncAll writes (lines 581-589); syncAllWithProgress has
\* no catch and writes nothing
ErrorSnapshots(mode, stage) ==
  IF mode = "direct"
  THEN <<Snapshot("error", ErrorMessage[stage], 0, 0)>>
  ELSE <<>>

\* an error reaches syncAll / syncAllWithProgress: the run ends, rejected
Fatal(p, r, stage, before) ==
  Emit(p, [r EXCEPT !.pc = "failed", !.fatal = stage, !.endedAt = now],
       before \o ErrorSnapshots(r.mode, stage))

\* getIntegrationById, then the first snapshot
Start(p) ==
  /\ run[p].pc = "idle"
  /\ \E i \in RunIntegrations[p], m \in RunModes[p], o \in Outcomes({"fail"}) :
       LET r == [run[p] EXCEPT !.integ = i, !.mode = m, !.startedAt = now]
       IN /\ Charge(o)
          /\ IF GetIntegrationById(integration, i, o) # <<>>
             THEN Emit(p, [r EXCEPT !.pc = StageOrder[1],
                                    !.sub = FirstSub[StageOrder[1]]],
                       <<Snapshot("running", "Starting full sync", 0, 100)>>)
             ELSE Fatal(p, r, "lookup", <<>>)
  /\ UNCHANGED <<store, integration, timers, now, timeline, callsLeft, fetched, aux>>

\* syncOrganizations, lines 595-627
SyncOrganizationsUser(p) ==
  LET r == run[p]
      i == r.integ
      s == <<Snapshot("running", "Syncing organizations", 0, 100)>>
  IN /\ r.pc = "organizations" /\ r.sub = "user"
     /\ \E o \in Outcomes({"fail"}) :
          /\ Charge(o)
          /\ IF o = "ok"
             THEN /\ organizations' = UpsertUserOrganization(organizations, i)
                  /\ Emit(p, [r EXCEPT
                                !.orgsUpserted = @ \cup {AuthenticatedUser[i].login},
                                !.oi = 1,
                                !.sub = IF Len(UserOrganizations[i]) >= 1
                                        THEN "org" ELSE "repos"], s)
             ELSE /\ UNCHANGED organizations
                  /\ Fatal(p, r, "organizations", s)
     /\ UNCHANGED <<repos, commits, pulls, issues, changelogs, users,
                    integration, timers, now, timeline, callsLeft, fetched, aux>>

\* syncOrganizations, lines 630-654: the next organization of the token
SyncOrganization(p) ==
  LET r == run[p]
      i == r.integ
      login == UserOrganizations[i][r.oi]
  IN /\ r.pc = "organizations" /\ r.sub = "org"
     /\ \E o \in Outcomes({"fail"}) :
          /\ Charge(o)
          /\ IF o = "ok"
             THEN /\ organizations' = UpsertOrganization(organizations, i, login)
                  /\ Emit(p, [r EXCEPT !.orgsUpserted = @ \cup {login},
                                       !.sub = "repos"], <<>>)
             ELSE /\ UNCHANGED organizations
                  /\ Fatal(p, r, "organizations", <<>>)
     /\ UNCHANGED <<repos, commits, pulls, issues, changelogs, users,
                    integration, timers, now, timeline, callsLeft, fetched, aux>>

\* syncOrganizations, lines 657 and 661: syncRepositories for the organization
\* just upserted, and at the end for the account's own login
SyncRepositoriesStep(p) ==
  LET r == run[p]
      i == r.integ
      orgs == UserOrganizations[i]
      ofOrg == r.oi <= Len(orgs)
      owner == IF ofOrg THEN orgs[r.oi] ELSE AuthenticatedUser[i].login
  IN /\ r.pc = "organizations" /\ r.sub = "repos"
     /\ \E o \in Outcomes({"fail"}) :
          /\ Charge(o)
          /\ IF o = "ok"
             THEN /\ repos' = SyncRepositories(repos, organizations, i, owner)
                  /\ LET r1 == [r EXCEPT !.ownersSynced = Append(@, owner)]
                     IN Emit(p,
                             IF ofOrg
                             THEN [r1 EXCEPT !.oi = r.oi + 1,
                                             !.sub = IF r.oi + 1 <= Len(orgs)
                                                     THEN "org" ELSE "repos"]
                             ELSE EnterNext(r1, "organizations"),
                             <<>>)
             ELSE /\ UNCHANGED repos
                  /\ Fatal(p, r, "repositories", <<>>)
     /\ UNCHANGED <<organizations, commits, pulls, issues, changelogs, users,
                    integration, timers, now, timeline, callsLeft, fetched, aux>>

\* repoRepo.findByIntegrationId: the documents in the order of their remote id
RECURSIVE FullNamesOf(_)
FullNamesOf(docs) ==
  IF docs = {} THEN <<>>
  ELSE LET m == CHOOSE d \in docs : \A e \in docs : d.githubId <= e.githubId
       IN <<m.fullName>> \o FullNamesOf(docs \ {m})

\* syncAll, lines 542-545
ListRepos(p) ==
  LET r == run[p]
      list == FullNamesOf(Find(repos, [integrationId |-> r.integ]))
  IN /\ r.pc = "repositories" /\ r.sub = "list"
     /\ \E o \in Outcomes({"fail"}) :
          /\ Charge(o)
          /\ IF o = "ok"
             THEN LET r1 == [r EXCEPT !.repoList = list, !.current = 0,
                                      !.total = Len(list)]
                  IN Emit(p, IF list = <<>> THEN EnterNext(r1, "repositories")
                             ELSE [r1 EXCEPT !.sub = "commits"], <<>>)
             ELSE Fatal(p, r, "listRepos", <<>>)
     /\ UNCHANGED <<store, integration, timers, now, timeline, callsLeft, fetched, aux>>

\* the run record after a per-repository stage ended with result res
Logged(r, stage, res) ==
  [r EXCEPT !.outcome =
     Append(@, [repo |-> r.repoList[r.current + 1], stage |-> stage, res |-> res])]

\* syncAll, line 551: syncCommits of the current repository
CommitsStep(p) ==
  LET r == run[p]
      f == r.repoList[r.current + 1]
  IN /\ r.pc = "repositories" /\ r.sub = "commits"
     /\ \E o \in Outcomes({"fetchFail"}) :
          /\ Charge(o)
          /\ commits' = IF o = "ok" THEN SyncCommits(commits, repos, r.integ, f)
                        ELSE commits
          /\ IF o = "ok" \/ SwallowsStageFailure("commits")
             THEN Emit(p, [Logged(r, "commits", o) EXCEPT !.sub = "pulls"], <<>>)
             ELSE Fatal(p, Logged(r, "commits", o), "commits", <<>>)
     /\ UNCHANGED <<organizations, repos, pulls, issues, changelogs, users,
                    integration, timers, now, timeline, callsLeft, fetched, aux>>

\* syncAll, line 552: syncPulls of the current repository
PullsStep(p) ==
  LET r == run[p]
      f == r.repoList[r.current + 1]
  IN /\ r.pc = "repositories" /\ r.sub = "pulls"
     /\ \E o \in Outcomes({"fetchFail"}) :
          /\ Charge(o)
          /\ pulls' = IF o = "ok" THEN SyncPulls(pulls, repos, r.integ, f)
                      ELSE pulls
          /\ IF o = "ok" \/ SwallowsStageFailure("pulls")
             THEN Emit(p, [Logged(r, "pulls", o) EXCEPT !.sub = "issues"], <<>>)
             ELSE Fatal(p, Logged(r, "pulls", o), "pulls", <<>>)
     /\ UNCHANGED <<organizations, repos, commits, issues, changelogs, users,
                    integration, timers, now, timeline, callsLeft, fetched, aux>>

\* the timeline events a successful issue sync of repository f was handed
Fetched(f, n) ==
  {<<f, RemoteIssues[f][k], RemoteTimeline(f, n)[e]>> :
     k \in DOMAIN RemoteIssues[f], e \in 1..n}

\* the collections after syncIssues of repository f ended with outcome o
IssuesAfter(i, f, o) ==
  IF o = "fetchFail" THEN [issues |-> issues, changelogs |-> changelogs]
  ELSE SyncIssues(issues, changelogs, repos, i, f, timeline[f], o = "ok")

FetchedAfter(f, o) ==
  IF o = "ok" /\ Has(repos, [fullName |-> f])
  THEN fetched \cup Fetched(f, timeline[f])
  ELSE fetched

\* syncAll, lines 553-561: syncIssues (with syncChangelogs) of the current
\* repository, then current++ and the repository's snapshot
IssuesStep(p) ==
  LET r == run[p]
      f == r.repoList[r.current + 1]
  IN /\ r.pc = "repositories" /\ r.sub = "issues"
     /\ \E o \in Outcomes({"fetchFail", "timelineFail"}) :
          /\ Charge(o)
          /\ issues' = IssuesAfter(r.integ, f, o).issues
          /\ changelogs' = IssuesAfter(r.integ, f, o).changelogs
          /\ fetched' = FetchedAfter(f, o)
          /\ UNCHANGED aux
          /\ IF o \in {"ok", "timelineFail"} \/ SwallowsStageFailure("issues")
             THEN LET r1 == [Logged(r, "issues", o) EXCEPT !.current = r.current + 1]
                  IN Emit(p, IF r1.current < r1.total
                             THEN [r1 EXCEPT !.sub = "commits"]
                             ELSE EnterNext(r1, "repositories"),
                          <<Snapshot("running", RepoMessage[f], r1.current, r1.total)>>)
             ELSE Fatal(p, Logged(r, "issues", o), "issues", <<>>)
     /\ UNCHANGED <<organizations, repos, commits, pulls, users,
                    integration, timers, now, timeline, callsLeft>>

\* syncAll, line 565: syncUsers; every error is swallowed (line 1076)
UsersStep(p) ==
  LET r == run[p]
  IN /\ r.pc = "users"
     /\ \E o \in Outcomes({"fetchFail", "profileFail"}),
           failed \in SUBSET Range(OrganizationMembers["acme"]) :
          /\ (o = "profileFail") = (failed # {})
          /\ Charge(o)
          /\ users' = IF o # "fetchFail"
                      THEN SyncUsers(users, organizations, r.integ, failed)
                      ELSE users
          /\ Emit(p, EnterNext([r EXCEPT
                                  !.usersRan = TRUE,
                                  !.profiles =
                                     IF o # "fetchFail"
                                     THEN Profiles(organizations, r.integ, failed)
                                     ELSE {}],
                               "users"), <<>>)
     /\ UNCHANGED <<organizations, repos, commits, pulls, issues, changelogs,
                    integration, timers, now, timeline, callsLeft, fetched, aux>>

\* syncAll, lines 568-580: stamp lastSyncAt, final snapshot, delayed removal
Finalize(p) ==
  LET r == run[p]
      i == r.integ
  IN /\ r.pc = "finalize"
     /\ \E o \in Outcomes({"fail"}) :
          /\ Charge(o)
          /\ IF o = "ok"
             THEN /\ integration' = UpdateLastSync(integration, i, now)
                  /\ timers' = timers \cup
                       {[by |-> p, proc |-> ProcOf[r.mode], integ |-> i,
                         due |-> now + GraceMinutes]}
                  /\ Emit(p, [r EXCEPT !.pc = "done", !.stamped = TRUE,
                                       !.endedAt = now],
                          <<Snapshot("completed", "Sync completed successfully",
                                     r.total, r.total)>>)
             ELSE /\ UNCHANGED <<integration, timers>>
                  /\ Fatal(p, r, "lastSync", <<>>)
     /\ UNCHANGED <<store, now, timeline, callsLeft, fetched, aux>>

----------------------------------------------------------------------------
(* Single stages invoked on their own (POST /api/sync/..., the stage jobs) *)

\* syncRepositories(integrationId, owner, githubApi)
SyncRepositoriesCall(i, owner) ==
  /\ callsLeft > 0
  /\ callsLeft' = callsLeft - 1
  /\ repos' = SyncRepositories(repos, organizations, i, owner)
  /\ UNCHANGED <<organizations, commits, pulls, issues, changelogs, users,
                 integration, syncProgress, redis, timers, now, timeline, run,
                 faultsLeft, fetched, aux>>

\* syncIssues(integrationId, owner, repo, githubApi)
SyncIssuesCall(i, f) ==
  /\ callsLeft > 0
  /\ callsLeft' = callsLeft - 1
  /\ issues' = IssuesAfter(i, f, "ok").issues
  /\ changelogs' = IssuesAfter(i, f, "ok").changelogs
  /\ fetched' = FetchedAfter(f, "ok") /\ UNCHANGED aux
  /\ UNCHANGED <<organizations, repos, commits, pulls, users,
                 integration, syncProgress, redis, timers, now, timeline, run,
                 faultsLeft>>

----------------------------------------------------------------------------
(* Environment *)

\* a new event appears on the remote timeline of the issue of repository f
RemoteAddEvent(f) ==
  /\ timeline[f] < MaxEvents
  /\ timeline' = [timeline EXCEPT ![f] = @ + 1]
  /\ UNCHANGED <<store, integration, syncProgress, redis, timers, now, run,
                 faultsLeft, callsLeft, fetched, aux>>

\* a minute passes
Tick ==
  /\ now < MaxTime
  /\ now' = now + 1
  /\ UNCHANGED <<store, integration, syncProgress, redis, timers, timeline, run,
                 faultsLeft, callsLeft, fetched, aux>>

\* setTimeout(() => this.clearSyncProgress(integrationId), 5 * 60 * 1000) fires
FireTimer(t) ==
  /\ t \in timers
  /\ now >= t.due
  /\ timers' = timers \ {t}
  /\ syncProgress' = ClearSyncProgress(syncProgress, t.proc, t.integ)
  /\ redis' = [redis EXCEPT ![t.integ] = <<>>]
  /\ UNCHANGED <<store, integration, now, timeline, run, faultsLeft, callsLeft,
                 fetched, aux>>

\* POST /api/sync/cancel with a run that the request would stop: what
\* cancelSync would be if it preempted
CancelSyncAborting(i) ==
  /\ callsLeft > 0
  /\ callsLeft' = callsLeft - 1
  /\ syncProgress' = ClearSyncProgress(syncProgress, PollerProc, i)
  /\ redis' = [redis EXCEPT ![i] = <<>>]
  /\ run' = [p \in Runs |->
               IF run[p].integ = i /\ run[p].pc # "idle" /\ run[p].pc \notin {"done", "failed"}
               THEN [run[p] EXCEPT !.cancels = @ + 1, !.pc = "failed",
                                   !.fatal = "cancelled", !.endedAt = now]
               ELSE run[p]]
  /\ UNCHANGED <<store, integration, timers, now, timeline, faultsLeft, fetched, aux>>

\* POST /api/sync/cancel: syncService.clearSyncProgress(integrationId) in the
\* process that serves the request; `cancels` counts the requests a run of
\* the integration was under way for
CancelSync(i) ==
  /\ callsLeft > 0
  /\ callsLeft' = callsLeft - 1
  /\ syncProgress' = ClearSyncProgress(syncProgress, PollerProc, i)
  /\ redis' = [redis EXCEPT ![i] = <<>>]
  /\ run' = [p \in Runs |->
               IF run[p].integ = i /\ run[p].pc # "idle" /\ run[p].pc \notin {"done", "failed"}
               THEN [run[p] EXCEPT !.cancels = @ + 1]
               ELSE run[p]]
  /\ UNCHANGED <<store, integration, timers, now, timeline, faultsLeft, fetched, aux>>

----------------------------------------------------------------------------
(* retry.util: retryWithBackoff, calculateBackoff, isRetryableError,
   retryGitHubCall *)

\* an error as the classification sees it: error.status, error.response.status
\* (0: the field is absent), error.code, and whether error.message includes
\* 'rate limit'
Err(status, response, code, rateLimit) ==
  [status |-> status, response |-> response, code |-> code,
   rateLimit |-> rateLimit]

NoError == Err(0, 0, "-", FALSE)

Errors ==
  { Err(401, 401, "-", FALSE), Err(403, 403, "-", TRUE),
    Err(0, 403, "-", TRUE), Err(0, 401, "ECONNRESET", FALSE),
    Err(503, 503, "-", FALSE), Err(503, 0, "-", FALSE),
    Err(0, 429, "-", FALSE), Err(404, 404, "-", FALSE),
    Err(0, 0, "ECONNRESET", FALSE), Err(0, 0, "ETIMEDOUT", FALSE),
    NoError }

BaseDelays == {1, 2, 1000}
MaxDelays == {3, 30000}
Policies == {"always", "never", "retryable", "github"}

Min(a, b) == IF a <= b THEN a ELSE b

\* calculateBackoff with a jitter of +/-50%
CalculateBackoffWideJitter(attempt, baseDelay, maxDelay, j) ==
  LET delay == Min(baseDelay * 2 ^ (attempt - 1), maxDelay)
  IN (delay * (JitterSteps + 2 * j)) \div (2 * JitterSteps)

\* calculateBackoff(attempt, baseDelay, maxDelay) when Math.random() returns
\* j / JitterSteps: Math.floor(delay + delay * 0.25 * (random * 2 - 1))
CalculateBackoff(attempt, baseDelay, maxDelay, j) ==
  LET delay == Min(baseDelay * 2 ^ (attempt - 1), maxDelay)
  IN (delay * (3 * JitterSteps + 2 * j)) \div (4 * JitterSteps)

IsRetryableError(e) ==
  \/ e.code \in {"ECONNRESET", "ETIMEDOUT", "ENOTFOUND"}
  \/ e.response \in {408, 429, 500, 502, 503, 504}
  \/ e.rateLimit

\* the shouldRetry of retryGitHubCall
GitHubShouldRetry(e) ==
  IF e.status = 401 \/ e.status = 403 THEN FALSE ELSE IsRetryableError(e)

ShouldRetry(policy, e) ==
  CASE policy = "always" -> TRUE
    [] policy = "never" -> FALSE
    [] policy = "retryable" -> IsRetryableError(e)
    [] policy = "github" -> GitHubShouldRetry(e)

\* for (let attempt = 1; attempt <= maxAttempts; attempt++)
LoopContinues(attempt, maxAttempts) == attempt <= maxAttempts

NeverExhausted(attempt, maxAttempts) == FALSE

\* attempt === maxAttempts
Exhausted(attempt, maxAttempts) == attempt = maxAttempts

IdleRetry ==
  [pc |-> "idle", policy |-> "always", maxAttempts |-> 0, baseDelay |-> 0,
   maxDelay |-> 0, onRetry |-> FALSE, attempt |-> 0, calls |-> 0,
   succeededAt |-> 0, value |-> 0, err |-> NoError, errAt |-> 0,
   thrown |-> NoError, thrownAt |-> 0, sleeps |-> 0, observed |-> 0,
   delay |-> 0]

\* a successful invocation that does not return
OnSuccessNoReturn(rt) ==
  [rt EXCEPT !.pc = "sleep", !.calls = @ + 1, !.succeededAt = rt.calls + 1,
             !.value = rt.calls + 1]

\* return await fn(): the value of invocation n is n
OnSuccess(rt) ==
  [rt EXCEPT !.pc = "resolved", !.calls = @ + 1, !.succeededAt = rt.calls + 1,
             !.value = rt.calls + 1]

\* the loop is entered, or not when maxAttempts < 1 (throw lastError)
RetryEnter ==
  /\ retry.pc = "start"
  /\ retry' = IF LoopContinues(1, retry.maxAttempts)
               THEN [retry EXCEPT !.pc = "call", !.attempt = 1]
               ELSE [retry EXCEPT !.pc = "rejected"]
  /\ UNCHANGED besideRetry

\* one iteration: fn() is invoked; on an error the catch block runs up to the
\* sleep
RetryCall ==
  /\ retry.pc = "call"
  /\ \/ retry' = OnSuccess(retry)
     \/ \E e \in Errors :
          LET rt == [retry EXCEPT !.calls = @ + 1, !.err = e,
                                  !.errAt = retry.calls + 1]
          IN IF \/ Exhausted(rt.attempt, rt.maxAttempts)
                \/ ~ShouldRetry(rt.policy, e)
             THEN retry' = [rt EXCEPT !.pc = "rejected", !.thrown = e,
                                      !.thrownAt = rt.errAt]
             ELSE \E j \in 0 .. JitterSteps - 1 :
                    retry' =
                      [rt EXCEPT
                         !.pc = "sleep",
                         !.delay = CalculateBackoff(rt.attempt, rt.baseDelay,
                                                    rt.maxDelay, j),
                         !.observed = IF rt.onRetry THEN @ + 1 ELSE @,
                         !.sleeps = @ + 1]
  /\ UNCHANGED besideRetry

\* the sleep ends: attempt++, the loop condition, throw lastError after it
RetryWake ==
  /\ retry.pc = "sleep"
  /\ retry' = IF LoopContinues(retry.attempt + 1, retry.maxAttempts)
               THEN [retry EXCEPT !.pc = "call", !.attempt = @ + 1]
               ELSE [retry EXCEPT !.pc = "rejected", !.thrown = retry.err,
                                  !.thrownAt = retry.errAt]
  /\ UNCHANGED besideRetry

----------------------------------------------------------------------------
(* github-api.service: the paginated listings and the single-item getters *)

ListingMethods ==
  {"getRepositories", "getOrgRepositories", "getCommits", "getPullRequests",
   "getIssues", "getIssueTimeline", "getOrganizationMembers",
   "getRepositoryContributors"}

SingleGetters == {"getOrganization", "getCommit", "getUser"}

\* if (page > N) break; 0: the loop has no such line
PageCap ==
  [m \in ListingMethods |->
     CASE m = "getCommits" -> 10
       [] m \in {"getPullRequests", "getIssues"} -> 5
       [] m = "getIssueTimeline" -> 3
       [] OTHER -> 0]

\* the break taken one page late
CapReachedLate(m, page) == PageCap[m] # 0 /\ page > PageCap[m] + 1

\* if (page > N) break, page being the number of the next page
CapReached(m, page) == PageCap[m] # 0 /\ page > PageCap[m]

\* the remote collection: `full` full pages, then a page of `last` items
Sources ==
  [full : (0 .. MaxFullPages) \cup {ManyPages}, last : {0, 1, PerPage - 1}]

\* response.data.length of page n
PageLength(src, n) ==
  IF n <= src.full THEN PerPage ELSE IF n = src.full + 1 THEN src.last ELSE 0

\* the errors a request is rejected with (Octokit's RequestError carries the
\* status in both fields)
RequestErrors ==
  {Err(503, 503, "-", FALSE), Err(401, 401, "-", FALSE), Err(403, 403, "-", TRUE)}

\* throw new Error(`Failed to get ...: ${error.message}`)
Wrapped(e) == Err(0, 0, "-", e.rateLimit)

IdleListing ==
  [pc |-> "idle", method |-> "getCommits", source |-> [full |-> 0, last |-> 0],
   page |-> 0, requests |-> 0, tries |-> 0, items |-> 0, lastLength |-> 0,
   err |-> NoError, thrown |-> NoError]

\* one iteration of while (hasMore): the page is requested once; on an error
\* the catch of the method wraps and rethrows
ListPage ==
  /\ listing.pc = "page"
  /\ listing.method \in ListingMethods
  /\ LET l == [listing EXCEPT !.requests = @ + 1, !.tries = 1]
         len == PageLength(l.source, l.page)
     IN \/ \E prs \in {0, Min(len, 1)} :
             /\ prs # 0 => l.method = "getIssues"
             /\ listing' =
                  [l EXCEPT
                     !.items = @ + len - prs,
                     !.lastLength = len,
                     !.page = @ + 1,
                     !.pc = IF len = PerPage /\ ~CapReached(l.method, l.page + 1)
                            THEN "page" ELSE "returned"]
        \/ \E e \in RequestErrors :
             listing' = [l EXCEPT !.pc = "threw", !.err = e,
                                  !.thrown = Wrapped(e)]
  /\ UNCHANGED besideListing

\* a single-item getter: one request, the error wrapped and rethrown
GetOne ==
  /\ listing.pc = "page"
  /\ listing.method \in SingleGetters
  /\ LET l == [listing EXCEPT !.requests = @ + 1, !.tries = 1]
     IN \/ listing' = [l EXCEPT !.pc = "returned", !.items = 1]
        \/ \E e \in RequestErrors :
             listing' = [l EXCEPT !.pc = "threw", !.err = e,
                                  !.thrown = Wrapped(e)]
  /\ UNCHANGED besideListing

----------------------------------------------------------------------------
(* batch.util: processBatch over processConcurrently.  The items are 1 .. n;
   the worker of an item in `fails` rejects.  Workers make progress only
   while the caller is suspended at an await. *)

IdleBatch ==
  [pc |-> "idle", n |-> 0, fails |-> {}, concurrency |-> 1, batchSize |-> 1,
   i |-> 0, next |-> 1, status |-> <<>>, executing |-> {}, raceWon |-> "none",
   results |-> <<>>, errors |-> <<>>]

\* items.slice(i, i + batchSize), as the indices of its items
BatchEnd(b) == Min(b.i + b.batchSize, b.n)
BatchItems(b) == (b.i + 1) .. BatchEnd(b)

\* the items of a set, in ascending order
RECURSIVE Ascending(_)
Ascending(S) ==
  IF S = {} THEN <<>>
  ELSE LET m == CHOOSE x \in S : \A y \in S : x <= y
       IN <<m>> \o Ascending(S \ {m})

\* the await taken only above the limit
RaceAwaitedLate(executing, concurrency) == Cardinality(executing) > concurrency

\* if (executing.length >= concurrency) await Promise.race(executing)
RaceAwaited(executing, concurrency) == Cardinality(executing) >= concurrency

\* the workers that have been started and have not settled
InFlight(b) == {k \in DOMAIN b.status : b.status[k] = "pending"}

\* for (let i = 0; i < items.length; i += batchSize)
BatchEnter ==
  /\ batch.pc = "start"
  /\ batch' = [batch EXCEPT !.pc = IF 0 < batch.n THEN "loop" ELSE "resolved"]
  /\ UNCHANGED besideBatch

\* processConcurrently, one iteration of for (const item of items): the worker
\* is scheduled; when concurrency <= items.length its derived promise joins
\* `executing`, and with `concurrency` of them there the loop awaits their race
StartItem ==
  /\ batch.pc = "loop"
  /\ LET b == batch
         k == b.next
         gated == b.concurrency <= BatchEnd(b) - b.i
         ex == IF gated THEN b.executing \cup {k} ELSE b.executing
     IN batch' =
          IF k <= BatchEnd(b)
          THEN [b EXCEPT
                  !.status[k] = "pending",
                  !.next = k + 1,
                  !.executing = ex,
                  !.pc = IF gated /\ RaceAwaited(ex, b.concurrency)
                         THEN "race" ELSE "loop",
                  !.raceWon = IF \E x \in ex : b.status[x] = "rejected"
                              THEN "fail" ELSE "none"]
          ELSE [b EXCEPT !.pc = "settle"]
  /\ UNCHANGED besideBatch

\* the worker of item k settles: on fulfilment the derived promise removes
\* itself from `executing` (promise.then(() => executing.splice(...))); on
\* rejection the derived promise rejects and stays
Settle(k) ==
  /\ batch.pc \in {"race", "settle"}
  /\ k \in DOMAIN batch.status
  /\ batch.status[k] = "pending"
  /\ LET ok == k \notin batch.fails
     IN batch' =
          [batch EXCEPT
             !.status[k] = IF ok THEN "fulfilled" ELSE "rejected",
             !.executing = IF ok THEN @ \ {k} ELSE @,
             !.raceWon = IF batch.pc = "race" /\ @ = "none" /\ k \in batch.executing
                         THEN (IF ok THEN "ok" ELSE "fail") ELSE @]
  /\ UNCHANGED besideBatch

\* await Promise.race(executing) settles: the loop goes on, or the rejection
\* leaves processConcurrently and processBatch, which have no catch
RaceResume ==
  /\ batch.pc = "race"
  /\ batch.raceWon # "none"
  /\ batch' = IF batch.raceWon = "ok"
               THEN [batch EXCEPT !.pc = "loop", !.raceWon = "none"]
               ELSE [batch EXCEPT !.pc = "rejected"]
  /\ UNCHANGED besideBatch

\* return Promise.allSettled(results), then processBatch lines 36-50
BatchSettled ==
  /\ batch.pc = "settle"
  /\ \A k \in BatchItems(batch) : batch.status[k] \in {"fulfilled", "rejected"}
  /\ LET b == batch
         ok == {k \in BatchItems(b) : b.status[k] = "fulfilled"}
         ko == {k \in BatchItems(b) : b.status[k] = "rejected"}
     IN batch' =
          [b EXCEPT
             !.results = @ \o Ascending(ok),
             !.errors = @ \o Ascending(ko),
             !.i = b.i + b.batchSize,
             !.next = b.i + b.batchSize + 1,
             !.executing = {},
             !.raceWon = "none",
             !.pc = IF b.i + b.batchSize < b.n THEN "loop" ELSE "resolved"]
  /\ UNCHANGED besideBatch

----------------------------------------------------------------------------
(* batch.util: parallelProcessSafe as syncUsers calls it, one getUser call per
   member of the organization *)

IdleFanout == [pc |-> "idle", n |-> 0, status |-> <<>>]

\* the calls of getUser that have been issued and have not settled
GetUserInFlight(fo) == {k \in DOMAIN fo.status : fo.status[k] = "pending"}

\* items.map(processor): the processor is invoked on every member before the
\* first await, each invocation issuing its getUser call
MapProcessor ==
  /\ fanout.pc = "start"
  /\ fanout' = [fanout EXCEPT !.pc = "allSettled",
                              !.status = [k \in 1 .. fanout.n |-> "pending"]]
  /\ UNCHANGED besideFanout

\* the getUser call of member k resolves or rejects
GetUserSettles(k) ==
  /\ fanout.pc = "allSettled"
  /\ k \in DOMAIN fanout.status
  /\ fanout.status[k] = "pending"
  /\ \E res \in {"fulfilled", "rejected"} :
       fanout' = [fanout EXCEPT !.status[k] = res]
  /\ UNCHANGED besideFanout

\* await Promise.allSettled(...) resumes once every call has settled
FanoutReturns ==
  /\ fanout.pc = "allSettled"
  /\ GetUserInFlight(fanout) = {}
  /\ fanout' = [fanout EXCEPT !.pc = "returned"]
  /\ UNCHANGED besideFanout

----------------------------------------------------------------------------
(* rate-limit.middleware: trackGitHubRateLimit, updateGitHubRateLimit.  The
   shared store keeps github:ratelimit:<integrationId> until the key expires;
   times are epoch seconds. *)

Max(a, b) == IF a >= b THEN a ELSE b

\* a field that is not there (undefined, NaN)
Absent == -1

NoCheck == [integ |-> "none", verdict |-> "none", reset |-> Absent]

\* integrationSchema rateLimitInfo: limit and remaining default to 5000, reset
\* to null, used to 0; reset is a Date, kept here in milliseconds
DefaultRateLimitInfo ==
  [limit |-> 5000, remaining |-> 5000, reset |-> Absent, used |-> 0]

IdleQuota ==
  [clock |-> 0,
   cache |-> [i \in Integrations |-> <<>>],
   check |-> NoCheck,
   info |-> [i \in Integrations |-> DefaultRateLimitInfo],
   received |-> [i \in Integrations |-> <<>>]]

\* the reset times the remote service announces, and the steps of the clock
Resets == {40, 100, 120}
Jumps == {20, 60}

\* the quota objects handed to updateGitHubRateLimit
RateLimits ==
  {[limit |-> 5000, remaining |-> r, reset |-> t, used |-> 5000 - r] :
     r \in {0, 1}, t \in Resets}

\* redisClient.get(key): the value while the key has not expired
RedisGet(q, i) ==
  IF q.cache[i] # <<>> /\ q.clock < q.cache[i][1].expires
  THEN <<q.cache[i][1].value>> ELSE <<>>

\* the test of the snapshot without the reset time
RejectsIgnoringReset(data, t) == data # <<>> /\ data[1].remaining <= 0

\* if (rateLimitData) ... if (remaining <= 0 && reset > now)
Rejects(data, t) ==
  data # <<>> /\ data[1].remaining <= 0 /\ data[1].reset > t

\* trackGitHubRateLimit for a request that carries integrationId id, or none:
\* next() or next(error), the error naming the reset time
TrackGitHubRateLimit(id) ==
  /\ quota' =
       [quota EXCEPT !.check =
          IF id = "none" THEN [integ |-> id, verdict |-> "admitted", reset |-> Absent]
          ELSE LET data == RedisGet(quota, id)
               IN IF Rejects(data, quota.clock)
                  THEN [integ |-> id, verdict |-> "rejected",
                        reset |-> data[1].reset]
                  ELSE [integ |-> id, verdict |-> "admitted", reset |-> Absent]]
  /\ UNCHANGED besideQuota

\* updateGitHubRateLimit(integrationId, rateLimit): setex with the time until
\* reset, at least 60 seconds
UpdateGitHubRateLimit(i, rl) ==
  /\ quota' =
       [quota EXCEPT !.cache[i] =
          <<[value |-> rl,
             expires |-> quota.clock + Max(rl.reset - quota.clock, MinTtl)]>>]
  /\ UNCHANGED besideQuota

\* the x-ratelimit-* headers of a response, as the numbers they spell; Absent:
\* the header is missing
QuotaHeaders ==
  [limit : {Absent, 5000}, remaining : {0, 4990},
   reset : {Absent, 100}, used : {0, 10}]

\* parseInt(header) || fallback: NaN and 0 are both falsy
ParseIntOr(h, fallback) == IF h = Absent \/ h = 0 THEN fallback ELSE h

\* new Date(reset * 1000), in milliseconds; null * 1000 is 0
DateOf(reset) == IF reset = Absent THEN 0 ELSE reset * 1000

\* IntegrationService.updateRateLimitFromHeaders(userId, headers), through
\* IntegrationRepository.updateRateLimit
UpdateRateLimitFromHeaders(i, h) ==
  /\ LET rateLimitInfo ==
           [limit |-> ParseIntOr(h.limit, 5000),
            remaining |-> ParseIntOr(h.remaining, 5000),
            reset |-> ParseIntOr(h.reset, Absent),
            used |-> ParseIntOr(h.used, 0)]
     IN quota' =
          [quota EXCEPT
             !.info[i] = [limit |-> rateLimitInfo.limit,
                          remaining |-> rateLimitInfo.remaining,
                          reset |-> DateOf(rateLimitInfo.reset),
                          used |-> rateLimitInfo.used],
             !.received[i] = <<h>>]
  /\ UNCHANGED besideQuota

\* value || previous
OrPrevious(v, previous) == IF v = Absent \/ v = 0 THEN previous ELSE v

\* integrationSchema.methods.updateRateLimit(rateLimitInfo)
SchemaUpdateRateLimit(i, h) ==
  /\ LET old == quota.info[i]
     IN quota' =
          [quota EXCEPT
             !.info[i] = [limit |-> OrPrevious(h.limit, old.limit),
                          remaining |-> OrPrevious(h.remaining, old.remaining),
                          reset |-> IF h.reset = Absent \/ h.reset = 0
                                    THEN old.reset ELSE DateOf(h.reset),
                          used |-> OrPrevious(h.used, old.used)],
             !.received[i] = <<h>>]
  /\ UNCHANGED besideQuota

\* time passes
ClockAdvance(d) ==
  /\ quota.clock + d <= MaxClock
  /\ quota' = [quota EXCEPT !.clock = @ + d]
  /\ UNCHANGED besideQuota

----------------------------------------------------------------------------
(* data-retention.service: the six sweeps and runFullCleanup.  Dates are whole
   days; every document carries the syncedAt its last sync stamped, pulls and
   issues their state, repositories the archived and disabled flags. *)

\* RETENTION_PERIODS, in days
RetentionPeriods ==
  [commits |-> 180, pulls |-> 365, issues |-> 365, changelogs |-> 180,
   inactiveRepos |-> 730, inactiveUsers |-> 365]

\* the windows a single sweep is called with
Windows == {30, 180, 365, 730}

\* the sweeps in the order runFullCleanup lists them, and the `entity` each
\* reports
Sweeps == <<"commits", "pulls", "issues", "changelogs", "inactiveRepos",
            "inactiveUsers">>
EntityOf ==
  [commits |-> "commits", pulls |-> "pulls", issues |-> "issues",
   changelogs |-> "changelogs", inactiveRepos |-> "repositories",
   inactiveUsers |-> "users"]

IdleRetention == [initial |-> <<>>, report |-> <<>>, runs |-> 0]

\* cutoffDate.setDate(cutoffDate.getDate() - daysToKeep)
Cutoff(daysToKeep) == Today - daysToKeep

\* syncedAt: { $lte: cutoffDate }
ExpiredInclusive(d, cutoff) == d.syncedAt <= cutoff

\* syncedAt: { $lt: cutoffDate }
Expired(d, cutoff) == d.syncedAt < cutoff

\* the filter of each deleteMany
Doomed(sweep, d, cutoff) ==
  CASE sweep \in {"commits", "changelogs", "inactiveUsers"} -> Expired(d, cutoff)
    [] sweep \in {"pulls", "issues"} -> d.state = "closed" /\ Expired(d, cutoff)
    [] sweep = "inactiveRepos" -> (d.archived \/ d.disabled) /\ Expired(d, cutoff)

\* Model.deleteMany(filter): what is left of the collection
DeleteMany(sweep, coll, daysToKeep) ==
  {d \in coll : ~Doomed(sweep, d, Cutoff(daysToKeep))}

\* result.deletedCount
DeletedCount(sweep, coll, daysToKeep) ==
  Cardinality(coll) - Cardinality(DeleteMany(sweep, coll, daysToKeep))

\* cleanupOldCommits(daysToKeep)
CleanupOldCommits(daysToKeep) ==
  /\ commits' = DeleteMany("commits", commits, daysToKeep)
  /\ UNCHANGED <<organizations, repos, pulls, issues, changelogs, users,
                 integration, syncProgress, redis, timers, now, timeline, run,
                 faultsLeft, callsLeft, fetched, aux>>

\* cleanupOldPulls(daysToKeep)
CleanupOldPulls(daysToKeep) ==
  /\ pulls' = DeleteMany("pulls", pulls, daysToKeep)
  /\ UNCHANGED <<organizations, repos, commits, issues, changelogs, users,
                 integration, syncProgress, redis, timers, now, timeline, run,
                 faultsLeft, callsLeft, fetched, aux>>

\* cleanupOldIssues(daysToKeep)
CleanupOldIssues(daysToKeep) ==
  /\ issues' = DeleteMany("issues", issues, daysToKeep)
  /\ UNCHANGED <<organizations, repos, commits, pulls, changelogs, users,
                 integration, syncProgress, redis, timers, now, timeline, run,
                 faultsLeft, callsLeft, fetched, aux>>

\* cleanupOldChangelogs(daysToKeep)
CleanupOldChangelogs(daysToKeep) ==
  /\ changelogs' = DeleteMany("changelogs", changelogs, daysToKeep)
  /\ UNCHANGED <<organizations, repos, commits, pulls, issues, users,
                 integration, syncProgress, redis, timers, now, timeline, run,
                 faultsLeft, callsLeft, fetched, aux>>

\* cleanupInactiveRepos(daysToKeep)
CleanupInactiveRepos(daysToKeep) ==
  /\ repos' = DeleteMany("inactiveRepos", repos, daysToKeep)
  /\ UNCHANGED <<organizations, commits, pulls, issues, changelogs, users,
                 integration, syncProgress, redis, timers, now, timeline, run,
                 faultsLeft, callsLeft, fetched, aux>>

\* cleanupInactiveUsers(daysToKeep)
CleanupInactiveUsers(daysToKeep) ==
  /\ users' = DeleteMany("inactiveUsers", users, daysToKeep)
  /\ UNCHANGED <<organizations, repos, commits, pulls, issues, changelogs,
                 integration, syncProgress, redis, timers, now, timeline, run,
                 faultsLeft, callsLeft, fetched, aux>>

\* the collection each sweep works on
CollectionOf(sweep) ==
  CASE sweep = "commits" -> commits
    [] sweep = "pulls" -> pulls
    [] sweep = "issues" -> issues
    [] sweep = "changelogs" -> changelogs
    [] sweep = "inactiveRepos" -> repos
    [] sweep = "inactiveUsers" -> users

\* one sweep of runFullCleanup as Promise.allSettled reports it: it runs with
\* its default window, or its deleteMany throws and the sweep rethrows
SweepSettled(sweep, failing) ==
  IF sweep \in failing
  THEN [status |-> "rejected", value |-> <<>>, reason |-> sweep]
  ELSE [status |-> "fulfilled",
        value |-> [success |-> TRUE, entity |-> EntityOf[sweep], error |-> "-",
                   deletedCount |->
                     DeletedCount(sweep, CollectionOf(sweep),
                                  RetentionPeriods[sweep])],
        reason |-> "-"]

\* what a sweep of runFullCleanup leaves of its collection
SweptBy(sweep, failing) ==
  IF sweep \in failing THEN CollectionOf(sweep)
  ELSE DeleteMany(sweep, CollectionOf(sweep), RetentionPeriods[sweep])

\* results.cleanups.push(...), lines 502-512; Absent: no deletedCount
CleanupEntry(res) ==
  IF IsFulfilled(res) THEN res.value
  ELSE [success |-> FALSE, entity |-> "-", error |-> res.reason,
        deletedCount |-> Absent]

\* results.success left true whatever the sweeps did
ReportSuccessAlways(settled) == TRUE

\* results.success = false for a rejected sweep
ReportSuccess(settled) == \A k \in DOMAIN settled : IsFulfilled(settled[k])

\* cleanups.reduce((sum, cleanup) => sum + (cleanup.deletedCount || 0), 0)
RECURSIVE TotalDeleted(_)
TotalDeleted(cleanups) ==
  IF cleanups = <<>> THEN 0
  ELSE (IF Head(cleanups).deletedCount = Absent THEN 0
        ELSE Head(cleanups).deletedCount) + TotalDeleted(Tail(cleanups))

\* runFullCleanup: the six sweeps started together, each with its default
\* window; the sweeps in `failing` throw
RunFullCleanup(failing) ==
  /\ retention.runs < MaxCleanups
  /\ LET settled == [k \in DOMAIN Sweeps |-> SweepSettled(Sweeps[k], failing)]
         cleanups == [k \in DOMAIN Sweeps |-> CleanupEntry(settled[k])]
     IN retention' =
          [retention EXCEPT
             !.runs = @ + 1,
             !.report = <<[success |-> ReportSuccess(settled),
                           cleanups |-> cleanups,
                           totalDeleted |-> TotalDeleted(cleanups),
                           failing |-> failing]>>]
  /\ commits' = SweptBy("commits", failing)
  /\ pulls' = SweptBy("pulls", failing)
  /\ issues' = SweptBy("issues", failing)
  /\ changelogs' = SweptBy("changelogs", failing)
  /\ repos' = SweptBy("inactiveRepos", failing)
  /\ users' = SweptBy("inactiveUsers", failing)
  /\ UNCHANGED <<organizations, integration, syncProgress, redis, timers, now,
                 timeline, run, faultsLeft, callsLeft, fetched, retry, listing,
                 batch, fanout, quota, job>>

----------------------------------------------------------------------------
(* Specifications *)

InitStore ==
  /\ organizations = {} /\ repos = {} /\ commits = {} /\ pulls = {}
  /\ issues = {} /\ changelogs = {} /\ users = {}

\* no run, no progress entry, no timer
InitControl ==
  /\ integration = [i \in Integrations |->
                      [syncStatus |-> "idle", lastSyncAt |-> -1, lastError |-> "-"]]
  /\ syncProgress = [pr \in Procs |-> [i \in Integrations |-> <<>>]]
  /\ redis = [i \in Integrations |-> <<>>]
  /\ timers = {}
  /\ now = 0
  /\ run = [p \in Runs |-> IdleRun]
  /\ fetched = {}

InitCommon == InitStore /\ InitControl

\* no utility call is under way
InitAux ==
  /\ retry = IdleRetry /\ listing = IdleListing /\ batch = IdleBatch
  /\ fanout = IdleFanout
  /\ quota = IdleQuota
  /\ retention = IdleRetention
  /\ job = IdleJob

\* the full-sync runs with injected faults
Init ==
  /\ InitCommon
  /\ InitAux
  /\ timeline = [f \in FullNames |-> 1]
  /\ faultsLeft = MaxFaults
  /\ callsLeft = 0

RunStep(p) ==
  \/ Start(p)
  \/ SyncOrganizationsUser(p)
  \/ SyncOrganization(p)
  \/ SyncRepositoriesStep(p)
  \/ ListRepos(p)
  \/ CommitsStep(p)
  \/ PullsStep(p)
  \/ IssuesStep(p)
  \/ UsersStep(p)
  \/ Finalize(p)

Next == \E p \in Runs : RunStep(p)

Spec == Init /\ [][Next]_vars

\* the full-sync runs interleaved with single-stage calls
StoreInit ==
  /\ InitCommon
  /\ InitAux
  /\ timeline = [f \in FullNames |-> 1]
  /\ faultsLeft = 0
  /\ callsLeft = MaxCalls

StoreNext ==
  \/ \E p \in Runs : RunStep(p)
  \/ \E i \in Integrations, owner \in Owners : SyncRepositoriesCall(i, owner)
  \/ \E i \in Integrations, f \in FullNames : SyncIssuesCall(i, f)

StoreSpec == StoreInit /\ [][StoreNext]_vars

\* repository and issue syncs of one integration against a growing timeline
IssueInit ==
  /\ InitCommon
  /\ InitAux
  /\ timeline = [f \in FullNames |-> 1]
  /\ faultsLeft = 0
  /\ callsLeft = MaxIssueCalls

IssueNext ==
  \/ \E i \in Integrations, owner \in Owners : SyncRepositoriesCall(i, owner)
  \/ \E i \in Integrations, f \in FullNames : SyncIssuesCall(i, f)
  \/ \E f \in FullNames : RemoteAddEvent(f)

IssueSpec == IssueInit /\ [][IssueNext]_vars

\* the full-sync runs against the clock and the delayed progress removal
TimedInit ==
  /\ InitCommon
  /\ InitAux
  /\ timeline = [f \in FullNames |-> 1]
  /\ faultsLeft = 0
  /\ callsLeft = 0

TimedNext ==
  \/ \E p \in Runs : RunStep(p)
  \/ Tick
  \/ \E t \in timers : FireTimer(t)

TimedSpec == TimedInit /\ [][TimedNext]_vars

\* the full-sync runs with cancel requests arriving at any moment
CancelInit ==
  /\ InitCommon
  /\ InitAux
  /\ timeline = [f \in FullNames |-> 1]
  /\ faultsLeft = 0
  /\ callsLeft = MaxCancels

CancelNext ==
  \/ \E p \in Runs : RunStep(p)
  \/ \E i \in Integrations : CancelSync(i)

CancelSpec == CancelInit /\ [][CancelNext]_vars

\* nothing of the synchronization is under way
SyncIdle ==
  /\ InitCommon
  /\ timeline = [f \in FullNames |-> 1]
  /\ faultsLeft = 0
  /\ callsLeft = 0

\* one retried call, for every choice of its options
RetryInit ==
  /\ SyncIdle
  /\ listing = IdleListing
  /\ batch = IdleBatch
  /\ fanout = IdleFanout
  /\ quota = IdleQuota
  /\ retention = IdleRetention
  /\ job = IdleJob
  /\ \E pol \in Policies, m \in 0 .. MaxAttempts, b \in BaseDelays,
        d \in MaxDelays, o \in BOOLEAN :
       retry = [IdleRetry EXCEPT !.pc = "start", !.policy = pol,
                                 !.maxAttempts = m, !.baseDelay = b,
                                 !.maxDelay = d, !.onRetry = o]

RetryNext == RetryEnter \/ RetryCall \/ RetryWake

RetrySpec == RetryInit /\ [][RetryNext]_vars

\* one call of a client method, for every method and every remote collection
ListInit ==
  /\ SyncIdle
  /\ retry = IdleRetry
  /\ batch = IdleBatch
  /\ fanout = IdleFanout
  /\ quota = IdleQuota
  /\ retention = IdleRetention
  /\ job = IdleJob
  /\ \E m \in ListingMethods \cup SingleGetters, src \in Sources :
       /\ m \in SingleGetters => src = [full |-> 0, last |-> 1]
       /\ listing = [IdleListing EXCEPT !.pc = "page", !.method = m,
                                        !.source = src, !.page = 1]

ListNext == ListPage \/ GetOne

ListSpec == ListInit /\ [][ListNext]_vars

\* one call of processBatch, for every list length, failure pattern,
\* concurrency and batch size
BatchInit ==
  /\ SyncIdle
  /\ retry = IdleRetry
  /\ listing = IdleListing
  /\ fanout = IdleFanout
  /\ quota = IdleQuota
  /\ retention = IdleRetention
  /\ job = IdleJob
  /\ \E n \in 0 .. MaxItems, c \in 1 .. MaxItems + 1, bs \in 1 .. MaxItems :
       \E fs \in SUBSET (1 .. n) :
         batch = [IdleBatch EXCEPT !.pc = "start", !.n = n, !.fails = fs,
                                   !.concurrency = c, !.batchSize = bs,
                                   !.status = [k \in 1 .. n |-> "new"]]

BatchNext ==
  \/ BatchEnter
  \/ StartItem
  \/ \E k \in 1 .. MaxItems : Settle(k)
  \/ RaceResume
  \/ BatchSettled

BatchSpec == BatchInit /\ [][BatchNext]_vars

\* the profile fetches of one organization, for every number of members
FanoutInit ==
  /\ SyncIdle
  /\ retry = IdleRetry
  /\ listing = IdleListing
  /\ batch = IdleBatch
  /\ quota = IdleQuota
  /\ retention = IdleRetention
  /\ job = IdleJob
  /\ \E n \in 0 .. MaxMembers :
       fanout = [IdleFanout EXCEPT !.pc = "start", !.n = n]

FanoutNext ==
  \/ MapProcessor
  \/ \E k \in 1 .. MaxMembers : GetUserSettles(k)
  \/ FanoutReturns

FanoutSpec == FanoutInit /\ [][FanoutNext]_vars

\* the rate-limit tracker: snapshots written, time passing, calls checked
QuotaInit ==
  /\ SyncIdle
  /\ retry = IdleRetry
  /\ listing = IdleListing
  /\ batch = IdleBatch
  /\ fanout = IdleFanout
  /\ quota = IdleQuota
  /\ retention = IdleRetention
  /\ job = IdleJob

QuotaNext ==
  \/ \E id \in Integrations \cup {"none"} : TrackGitHubRateLimit(id)
  \/ \E i \in Integrations, rl \in RateLimits : UpdateGitHubRateLimit(i, rl)
  \/ \E d \in Jumps : ClockAdvance(d)

QuotaSpec == QuotaInit /\ [][QuotaNext]_vars

\* quota headers arriving for the integrations
HeaderNext ==
  \/ \E i \in Integrations, h \in QuotaHeaders : UpdateRateLimitFromHeaders(i, h)
  \/ \E i \in Integrations, h \in QuotaHeaders : SchemaUpdateRateLimit(i, h)

HeaderSpec == QuotaInit /\ [][HeaderNext]_vars

\* the store a full sync of i1 leaves
SyncedOrganizations ==
  UpsertOrganization(UpsertUserOrganization({}, "i1"), "i1", "acme")
SyncedRepos ==
  SyncRepositories(SyncRepositories({}, SyncedOrganizations, "i1", "acme"),
                   SyncedOrganizations, "i1", "alice")
SyncedCommits ==
  SyncCommits(SyncCommits({}, SyncedRepos, "i1", "acme/api"),
              SyncedRepos, "i1", "alice/dot")
SyncedPulls ==
  SyncPulls(SyncPulls({}, SyncedRepos, "i1", "acme/api"),
            SyncedRepos, "i1", "alice/dot")
SyncedIssues ==
  LET a == SyncIssues({}, {}, SyncedRepos, "i1", "acme/api", 1, TRUE)
  IN SyncIssues(a.issues, a.changelogs, SyncedRepos, "i1", "alice/dot", 1, TRUE)
SyncedUsers == SyncUsers({}, SyncedOrganizations, "i1", {})

\* the documents of coll with the fields each sync stamps: those of `subject`
\* get `drawn`, the others `fresh`
Stamp(coll, subject, drawn, fresh) ==
  {(IF d \in subject THEN drawn ELSE fresh) @@ d : d \in coll}

\* how far from the cutoff of its default window a document is, in days
Offsets == {-1, 0, 1}

\* the date of a document that is `off` days past the default cutoff
AgedFor(sweep, off) == Today - (RetentionPeriods[sweep] + off)

\* a synced store: the documents of repository acme/api and the user alice
\* were last synced around the cutoff of their window, with any state and
\* flags; the others were synced today, are open and active
RetentionInit ==
  /\ InitControl
  /\ timeline = [f \in FullNames |-> 1]
  /\ faultsLeft = 0
  /\ callsLeft = 0
  /\ retry = IdleRetry /\ listing = IdleListing /\ batch = IdleBatch
  /\ fanout = IdleFanout /\ quota = IdleQuota /\ job = IdleJob
  /\ organizations = SyncedOrganizations
  /\ \E off \in Offsets, ps \in {"open", "closed"}, is \in {"open", "closed"},
        ar \in BOOLEAN, di \in BOOLEAN :
       LET api == FindOne(SyncedRepos, [fullName |-> "acme/api"])
           iss == FindOne(SyncedIssues.issues, [repoId |-> api.id])
       IN /\ repos = Stamp(SyncedRepos, {api},
                           [archived |-> ar, disabled |-> di,
                            syncedAt |-> AgedFor("inactiveRepos", off)],
                           [archived |-> FALSE, disabled |-> FALSE,
                            syncedAt |-> Today])
          /\ commits = Stamp(SyncedCommits, Find(SyncedCommits, [repoId |-> api.id]),
                             [syncedAt |-> AgedFor("commits", off)],
                             [syncedAt |-> Today])
          /\ pulls = Stamp(SyncedPulls, Find(SyncedPulls, [repoId |-> api.id]),
                           [state |-> ps, syncedAt |-> AgedFor("pulls", off)],
                           [state |-> "open", syncedAt |-> Today])
          /\ issues = Stamp(SyncedIssues.issues, {iss},
                            [state |-> is, syncedAt |-> AgedFor("issues", off)],
                            [state |-> "open", syncedAt |-> Today])
          /\ changelogs = Stamp(SyncedIssues.changelogs,
                                Find(SyncedIssues.changelogs, [issueId |-> iss.id]),
                                [syncedAt |-> AgedFor("changelogs", off)],
                                [syncedAt |-> Today])
          /\ users = Stamp(SyncedUsers, Find(SyncedUsers, [login |-> "alice"]),
                           [syncedAt |-> AgedFor("inactiveUsers", off)],
                           [syncedAt |-> Today])
  /\ retention = [IdleRetention EXCEPT
                    !.initial = <<[repos |-> repos, commits |-> commits,
                                   pulls |-> pulls, issues |-> issues,
                                   changelogs |-> changelogs, users |-> users]>>]

\* single sweeps, with any window, in any order
RetentionNext ==
  \/ \E n \in Windows : CleanupOldCommits(n)
  \/ \E n \in Windows : CleanupOldPulls(n)
  \/ \E n \in Windows : CleanupOldIssues(n)
  \/ \E n \in Windows : CleanupOldChangelogs(n)
  \/ \E n \in Windows : CleanupInactiveRepos(n)
  \/ \E n \in Windows : CleanupInactiveUsers(n)

RetentionSpec == RetentionInit /\ [][RetentionNext]_vars

\* runFullCleanup, for every set of failing sweeps
CleanupNext == \E failing \in SUBSET Range(Sweeps) : RunFullCleanup(failing)

CleanupSpec == RetentionInit /\ [][CleanupNext]_vars

----------------------------------------------------------------------------
(* The stage jobs of the worker *)

\* the queues whose processor calls one stage of the sync service
JobKinds == {"repositories", "commits", "pulls", "issues", "users"}

\* the four queues whose stage catches its own errors
QuietKinds == {"commits", "pulls", "issues", "users"}

JobIntegrations == {"i1"}

\* job.data beside the integration: the owner, the repository, or nothing
JobTargets(kind) ==
  CASE kind = "repositories" -> {"acme", "alice"}
    [] kind = "users" -> {"-"}
    [] OTHER -> FullNames

JobMessage ==
  [repositories |-> "Repositories synced", commits |-> "Commits synced",
   pulls |-> "Pull requests synced", issues |-> "Issues synced",
   users |-> "Users synced"]

\* the ways the stage of a job can go wrong
StageFailures(kind) ==
  CASE kind = "issues" -> {"fetchFail", "timelineFail"}
    [] kind = "users" -> {"fetchFail", "profileFail"}
    [] OTHER -> {"fetchFail"}

\* syncRepositories rethrows what it catches; syncCommits, syncPulls,
\* syncIssues and syncUsers log it and return undefined
StageThrows(kind, o) ==
  /\ o = "fetchFail"
  /\ ~SwallowsStageFailure(kind)
  /\ kind # "users"

\* the processor returned: { success: true, message, ...result }
MoveToCompleted(j, o) ==
  [j EXCEPT !.pc = "completed", !.stage = o,
            !.returnvalue = <<[success |-> TRUE, message |-> JobMessage[j.kind]]>>]

\* the processor threw: the attempt is counted and the job waits for its
\* next attempt, or has failed when the attempts are used up
MoveToFailed(j, o) ==
  [j EXCEPT !.pc = IF j.attemptsMade + 1 < JobAttempts THEN "waiting" ELSE "failed",
            !.stage = o,
            !.attemptsMade = @ + 1,
            !.failedReason = "Failed to sync repositories"]

\* a producer adds a job to the queue of `kind`
JobAdd(kind, i, target) ==
  /\ job.pc \in {"idle", "completed", "failed"}
  /\ callsLeft > 0
  /\ callsLeft' = callsLeft - 1
  /\ job' = [IdleJob EXCEPT !.pc = "waiting", !.kind = kind, !.integ = i,
                            !.target = target]
  /\ UNCHANGED <<store, integration, syncProgress, redis, timers, now,
                 timeline, run, faultsLeft, fetched, utilityVars>>

\* one attempt of the job: the processor of its queue calls the stage
ProcessJob ==
  LET kind == job.kind
      i == job.integ
      f == job.target
  IN /\ job.pc = "waiting"
     /\ \E o \in Outcomes(StageFailures(kind)),
           failed \in SUBSET Range(OrganizationMembers["acme"]) :
          /\ (o = "profileFail") = (failed # {})
          /\ Charge(o)
          /\ repos' = IF kind = "repositories" /\ o = "ok"
                      THEN SyncRepositories(repos, organizations, i, f)
                      ELSE repos
          /\ commits' = IF kind = "commits" /\ o = "ok"
                        THEN SyncCommits(commits, repos, i, f)
                        ELSE commits
          /\ pulls' = IF kind = "pulls" /\ o = "ok"
                      THEN SyncPulls(pulls, repos, i, f)
                      ELSE pulls
          /\ issues' = IF kind = "issues" THEN IssuesAfter(i, f, o).issues
                       ELSE issues
          /\ changelogs' = IF kind = "issues" THEN IssuesAfter(i, f, o).changelogs
                           ELSE changelogs
          /\ fetched' = IF kind = "issues" THEN FetchedAfter(f, o) ELSE fetched
          /\ users' = IF kind = "users" /\ o # "fetchFail"
                      THEN SyncUsers(users, organizations, i, failed)
                      ELSE users
          /\ job' = IF StageThrows(kind, o) THEN MoveToFailed(job, o)
                    ELSE MoveToCompleted(job, o)
     /\ UNCHANGED <<organizations, integration, syncProgress, redis, timers,
                    now, timeline, run, callsLeft, utilityVars>>

\* the worker on a store that holds the organizations of i1
JobInit ==
  /\ organizations = SyncedOrganizations
  /\ repos = {} /\ commits = {} /\ pulls = {}
  /\ issues = {} /\ changelogs = {} /\ users = {}
  /\ InitControl
  /\ InitAux
  /\ timeline = [f \in FullNames |-> 1]
  /\ faultsLeft = JobAttempts
  /\ callsLeft = MaxJobs

JobNext ==
  \/ \E kind \in JobKinds, i \in JobIntegrations :
       \E target \in JobTargets(kind) : JobAdd(kind, i, target)
  \/ ProcessJob

JobSpec == JobInit /\ [][JobNext]_vars

----------------------------------------------------------------------------
(* Properties *)

Last(q) == q[Len(q)]

Terminated(r) == r.pc \in {"done", "failed"}

\* the result of stage `stage` of the k-th repository of the run's list
StageResult(r, k, stage) ==
  LET n == 3 * (k - 1) + (CASE stage = "commits" -> 1
                            [] stage = "pulls" -> 2
                            [] stage = "issues" -> 3)
  IN r.outcome[n].res

\* every per-repository stage of every listed repository has run, in order
LoopComplete(r) ==
  /\ Len(r.outcome) = 3 * Len(r.repoList)
  /\ \A k \in DOMAIN r.repoList :
       /\ r.outcome[3 * k - 2].repo = r.repoList[k]
       /\ r.outcome[3 * k - 2].stage = "commits"
       /\ r.outcome[3 * k - 1].repo = r.repoList[k]
       /\ r.outcome[3 * k - 1].stage = "pulls"
       /\ r.outcome[3 * k].repo = r.repoList[k]
       /\ r.outcome[3 * k].stage = "issues"

RepoIdOf(f) == FindOne(repos, [fullName |-> f]).id

CommitsStored(f) ==
  \A k \in DOMAIN RemoteCommits[f] :
    Has(commits, [sha |-> RemoteCommits[f][k], repoId |-> RepoIdOf(f)])

PullsStored(f) ==
  \A k \in DOMAIN RemotePulls[f] :
    Has(pulls, [repoId |-> RepoIdOf(f), number |-> RemotePulls[f][k]])

IssuesStored(f) ==
  \A k \in DOMAIN RemoteIssues[f] :
    Has(issues, [repoId |-> RepoIdOf(f), number |-> RemoteIssues[f][k]])

\* some run has stored the commits of repository f
SomeRunStoredCommits(f) ==
  \E q \in Runs : \E n \in DOMAIN run[q].outcome :
    run[q].outcome[n] = [repo |-> f, stage |-> "commits", res |-> "ok"]

FatalStages == {"lookup", "organizations", "repositories", "listRepos", "lastSync"}

\* C1: a failure of the commits, pulls, issues or changelogs stage of one
\* repository never aborts a full sync: a run only ever fails in a structural
\* step; past the repository loop every stage of every listed repository has
\* run; a run that is done has run the users stage and written the
\* 'completed' snapshot; at that point a repository whose commit fetch threw
\* (in every run that tried) has no Commit document, and every stage that did
\* not fail has its documents stored.
C1_StageFailureNeverAborts ==
  \A p \in Runs :
    LET r == run[p]
    IN /\ r.pc = "failed" => r.fatal \in FatalStages
       /\ r.pc \in {"users", "finalize", "done"} => LoopComplete(r)
       /\ r.pc = "done" =>
            /\ r.usersRan
            /\ Last(r.snaps).status = "completed"
            /\ \A k \in DOMAIN r.repoList :
                 LET f == r.repoList[k]
                 IN /\ StageResult(r, k, "commits") = "ok" => CommitsStored(f)
                    /\ ~SomeRunStoredCommits(f) =>
                         Find(commits, [repoId |-> RepoIdOf(f)]) = {}
                    /\ StageResult(r, k, "pulls") = "ok" => PullsStored(f)
                    /\ StageResult(r, k, "issues") # "fetchFail" => IssuesStored(f)

\* a completed run of two repositories: the commit fetch of one threw and it
\* has no Commit document, the other one's commits, pulls and issues are stored
C1_Witness ==
  \E p \in Runs :
    LET r == run[p]
    IN /\ r.pc = "done"
       /\ Len(r.repoList) = 2
       /\ StageResult(r, 1, "commits") = "fetchFail"
       /\ Find(commits, [repoId |-> RepoIdOf(r.repoList[1])]) = {}
       /\ StageResult(r, 2, "commits") = "ok"
       /\ CommitsStored(r.repoList[2])
       /\ PullsStored(r.repoList[1])
       /\ IssuesStored(r.repoList[1])
       /\ IssuesStored(r.repoList[2])

\* C2 (as claimed): a failure in the organizations or repositories stage is
\* fatal: no per-repository stage and no users stage has run, the run is
\* rejected, the integration's syncStatus is 'failed' and its last error is
\* the error of the run.
C2_FatalStageMarksIntegrationFailed ==
  \A p \in Runs :
    LET r == run[p]
    IN (r.pc = "failed" /\ r.fatal \in {"organizations", "repositories"}) =>
         /\ r.outcome = <<>>
         /\ ~r.usersRan
         /\ integration[r.integ].syncStatus = "failed"
         /\ integration[r.integ].lastError = ErrorMessage[r.fatal]

\* no other run of the same integration is under way
OnlyActiveRun(p) ==
  \A q \in Runs \ {p} :
    run[q].pc = "idle" \/ run[q].integ # run[p].integ \/ Terminated(run[q])

\* C3 (as claimed): triggering a full sync sets syncStatus to 'syncing', and
\* each run that terminates leaves it at 'completed' or 'failed'.
C3_SyncStatusFollowsTheRun ==
  \A p \in Runs :
    LET r == run[p]
        status == integration[r.integ].syncStatus
    IN /\ (r.pc # "idle" /\ ~Terminated(r)) => status = "syncing"
       /\ (Terminated(r) /\ OnlyActiveRun(p)) => status \in {"completed", "failed"}

UniqueBy(coll, fields) ==
  \A a, b \in coll : (\A f \in fields : a[f] = b[f]) => a = b

NaturalKeysUnique ==
  /\ UniqueBy(organizations, {"githubId"})
  /\ UniqueBy(repos, {"githubId"})
  /\ UniqueBy(users, {"githubId"})
  /\ UniqueBy(commits, {"sha"})
  /\ UniqueBy(pulls, {"repoId", "number"})
  /\ UniqueBy(issues, {"repoId", "number"})

\* after a step that upserted the repositories of `owner` for integration i,
\* each of them is one document, the one that was there before if any, and
\* carries i's fields
RepoUpsertWins(i, owner) ==
  \A k \in DOMAIN OrgRepositories[owner] :
    LET cond == [githubId |-> OrgRepositories[owner][k].id]
    IN /\ Cardinality(Find(repos', cond)) = 1
       /\ FindOne(repos', cond).integrationId = i
       /\ Has(repos, cond) => FindOne(repos', cond).id = FindOne(repos, cond).id

RemoteEventOf(c) ==
  LET iss == FindOne(issues, [id |-> c.issueId])
      rp == FindOne(repos, [id |-> iss.repoId])
  IN <<rp.fullName, iss.number, c.githubId>>

\* C5 (as claimed): the stored Changelogs of an issue are exactly the distinct
\* events the timeline fetches have returned so far: one per (issueId, remote
\* event id), none missing.
C5_ChangelogsAreTheFetchedEvents ==
  /\ UniqueBy(changelogs, {"issueId", "githubId"})
  /\ {RemoteEventOf(c) : c \in changelogs} = fetched

ParentMatches(child, parents, ref) ==
  \E par \in parents :
    par.id = child[ref] /\ par.integrationId = child.integrationId

\* C6 (as claimed): every child document carries the integrationId of its
\* parent: Commit, Pull, Issue that of the Repo; Changelog that of the Issue;
\* Repo and User that of the Organization they are linked to.
C6_ChildIntegrationMatchesParent ==
  /\ \A c \in commits : ParentMatches(c, repos, "repoId")
  /\ \A c \in pulls : ParentMatches(c, repos, "repoId")
  /\ \A c \in issues : ParentMatches(c, repos, "repoId")
  /\ \A c \in changelogs : ParentMatches(c, issues, "issueId")
  /\ \A c \in repos :
       c.organizationId # <<>> => ParentMatches(c, organizations, "organizationId")
  /\ \A c \in users : ParentMatches(c, organizations, "organizationId")

\* the owners whose repositories syncOrganizations lists, in its order
OwnersOf(i) == UserOrganizations[i] \o <<AuthenticatedUser[i].login>>

\* C7: within one run the stage order is fixed: the Organization of a login is
\* upserted before that login's repositories are listed; every organization
\* and repository upsert precedes the first commit, pull or issue stage; the
\* users stage starts after the last repository's stages; lastSyncAt is
\* stamped after the users stage.
C7_StageOrderIsFixed ==
  \A p \in Runs :
    LET r == run[p]
    IN /\ \A k \in DOMAIN r.ownersSynced : r.ownersSynced[k] \in r.orgsUpserted
       /\ (r.outcome # <<>> \/ r.repoList # <<>>) =>
            /\ r.ownersSynced = OwnersOf(r.integ)
            /\ r.orgsUpserted = Range(OwnersOf(r.integ))
       /\ r.usersRan =>
            /\ r.ownersSynced = OwnersOf(r.integ)
            /\ LoopComplete(r)
            /\ r.pc \in {"finalize", "done", "failed"}
       /\ r.stamped => r.usersRan
       /\ (integration[r.integ].lastSyncAt # -1 /\ OnlyActiveRun(p) /\ r.pc # "idle")
            => r.stamped \/ \E q \in Runs \ {p} : run[q].stamped

\* a run that went through every stage of two repositories and stamped
C7_Witness ==
  \E p \in Runs :
    /\ run[p].stamped
    /\ Len(run[p].repoList) = 2
    /\ Len(run[p].outcome) = 6
    /\ users # {}
    /\ integration[run[p].integ].lastSyncAt # -1

\* C8 (as claimed): the snapshots one run writes have non-decreasing
\* `current`, and current <= total in every one, the final snapshot of a
\* failed run included.
C8_ProgressIsMonotone ==
  \A p \in Runs :
    LET ss == run[p].snaps
    IN \A k \in DOMAIN ss :
         /\ ss[k].current <= ss[k].total
         /\ k > 1 => ss[k - 1].current <= ss[k].current

\* every run of the integration other than p ended before p started
NoOtherRunSince(p) ==
  \A q \in Runs \ {p} :
    \/ run[q].pc = "idle"
    \/ run[q].integ # run[p].integ
    \/ Terminated(run[q]) /\ run[q].endedAt < run[p].startedAt

TimerPending(p) == \E t \in timers : t.by = p

\* C9 (as claimed): when a full sync completes, lastSyncAt is stamped (not
\* before the run started), the progress entry is 'completed' with current =
\* total = number of repositories, it stays readable for the grace period
\* and is gone once the delayed removal has run, unless a new run started.
C9_CompletedEntryLastsTheGracePeriod ==
  \A p \in Runs :
    LET r == run[p]
        entry == GetSyncProgress(syncProgress, ProcOf[r.mode], r.integ)
    IN r.pc = "done" =>
         /\ integration[r.integ].lastSyncAt >= r.startedAt
         /\ Last(r.snaps) = Snapshot("completed", "Sync completed successfully",
                                     Len(r.repoList), Len(r.repoList))
         /\ (NoOtherRunSince(p) /\ now < r.endedAt + GraceMinutes) =>
              entry = <<Last(r.snaps)>>
         /\ (NoOtherRunSince(p) /\ ~TimerPending(p)) => entry = <<>>

\* no other run of the same integration has been started
OnlyStartedRun(p) ==
  \A q \in Runs \ {p} : run[q].pc = "idle" \/ run[q].integ # run[p].integ

\* the same remote data and the same failures, met by two runs
SameScenario(a, b) ==
  /\ a.integ = b.integ
  /\ a.pc = b.pc
  /\ a.fatal = b.fatal
  /\ a.repoList = b.repoList
  /\ a.outcome = b.outcome

\* the snapshots written, whoever reads them: two terminated runs that met
\* the same scenario wrote the same sequence
SameSnapshotsWritten ==
  \A p, q \in Runs :
    (Terminated(run[p]) /\ Terminated(run[q]) /\ SameScenario(run[p], run[q]))
      => run[p].snaps = run[q].snaps

\* C10 (as claimed): a direct run and a queued run are indistinguishable to a
\* poller: in the same scenario they write the same snapshots, the terminal
\* one included, and the poller reads the snapshot the run wrote last.
C10_DirectAndQueuedLookAlike ==
  /\ SameSnapshotsWritten
  /\ \A p \in Runs :
       (run[p].pc # "idle" /\ run[p].snaps # <<>> /\ OnlyStartedRun(p)) =>
         GetSyncProgress(syncProgress, PollerProc, run[p].integ)
           = <<Last(run[p].snaps)>>

\* every stage of every repository the run listed has its documents stored
AllStored(r) ==
  \A k \in DOMAIN r.repoList :
    /\ CommitsStored(r.repoList[k])
    /\ PullsStored(r.repoList[k])
    /\ IssuesStored(r.repoList[k])

\* C11: cancelSync is advisory. A cancel request leaves every collection, every
\* run's position and every pending removal as they were and only empties the
\* progress entry of the integration; a run that was cancelled is never
\* stopped: while it has not ended its next step is enabled, it never ends
\* 'failed', and when it is done every stage of every repository has stored
\* its documents, the users stage has run and lastSyncAt is stamped.
C11_CancelIsAdvisory ==
  /\ [][\A i \in Integrations :
          CancelSync(i) =>
            /\ store' = store /\ integration' = integration /\ timers' = timers
            /\ \A p \in Runs :
                 [run'[p] EXCEPT !.cancels = 0] = [run[p] EXCEPT !.cancels = 0]
            /\ GetSyncProgress(syncProgress', PollerProc, i) = <<>>
            /\ \A j \in Integrations \ {i}, pr \in Procs :
                 syncProgress'[pr][j] = syncProgress[pr][j]]_vars
  /\ [](\A p \in Runs :
          run[p].cancels > 0 =>
            /\ run[p].pc # "failed"
            /\ run[p].pc # "done" => ENABLED RunStep(p)
            /\ run[p].pc = "done" =>
                 /\ AllStored(run[p])
                 /\ LoopComplete(run[p])
                 /\ run[p].usersRan /\ run[p].stamped)

\* a run that was cancelled while it was under way and went on
\* to store both repositories' documents and complete
C11_Witness ==
  \E p \in Runs :
    /\ run[p].cancels > 0
    /\ run[p].pc = "done"
    /\ Len(run[p].repoList) = 2
    /\ AllStored(run[p])
    /\ Last(run[p].snaps).status = "completed"

\* C12: retryWithBackoff invokes the operation at most maxAttempts times, never
\* invokes it again after an invocation has succeeded, and resolves with the
\* value of the first successful invocation.
C12_AtMostMaxAttemptsInvocations ==
  /\ retry.calls <= retry.maxAttempts
  /\ retry.succeededAt # 0 =>
       /\ retry.pc = "resolved"
       /\ retry.calls = retry.succeededAt
  /\ retry.pc = "resolved" =>
       /\ retry.succeededAt = retry.calls
       /\ retry.value = retry.succeededAt
       /\ retry.errAt < retry.succeededAt

\* two invocations failed, the third succeeded and its value is returned
C12_Witness ==
  /\ retry.pc = "resolved"
  /\ retry.maxAttempts = 3
  /\ retry.calls = 3
  /\ retry.errAt = 2
  /\ retry.value = 3

\* C13: retryWithBackoff rejects with the error of the last invocation it
\* made. An error for which shouldRetry is false ends the call at once: no
\* sleep, no observer call, no further invocation. When all maxAttempts
\* invocations fail, the error of the last one is raised; the observer has
\* fired once before each sleep and not after the final failure.
C13_RejectsWithLastError ==
  /\ (retry.pc = "rejected" /\ retry.calls > 0) =>
       /\ retry.thrownAt = retry.calls
       /\ retry.thrown = retry.err
       /\ retry.sleeps = retry.calls - 1
       /\ \/ retry.calls = retry.maxAttempts
          \/ ~ShouldRetry(retry.policy, retry.err)
  /\ (retry.calls > 0 /\ retry.errAt = retry.calls
        /\ ~ShouldRetry(retry.policy, retry.err)) =>
       retry.pc = "rejected"
  /\ retry.observed = IF retry.onRetry THEN retry.sleeps ELSE 0
  /\ retry.sleeps <= retry.calls
  /\ retry.pc = "sleep" => retry.calls < retry.maxAttempts

\* three invocations failed with retryable errors: the third error is raised
\* after two sleeps, each announced to the observer
C13_Witness ==
  /\ retry.pc = "rejected"
  /\ retry.maxAttempts = 3 /\ retry.calls = 3
  /\ retry.onRetry /\ retry.observed = 2 /\ retry.sleeps = 2
  /\ retry.thrownAt = 3
  /\ ShouldRetry(retry.policy, retry.err)

\* the HTTP status an error carries, in error.status or error.response.status
HttpStatus(e) == IF e.status # 0 THEN e.status ELSE e.response

\* C14 (as claimed): under retryGitHubCall's classification an error whose HTTP
\* status is 401 or 403 is never retried, whatever its message, its code or
\* the field that carries the status; an error whose HTTP status is 408, 429,
\* 500, 502, 503 or 504, or a connection reset or timeout, is retried while
\* attempts remain.
C14_GitHubClassification ==
  (retry.policy = "github" /\ retry.calls > 0 /\ retry.errAt = retry.calls) =>
    LET e == retry.err
    IN /\ HttpStatus(e) \in {401, 403} => retry.pc = "rejected"
       /\ ( /\ HttpStatus(e) \notin {401, 403}
            /\ \/ HttpStatus(e) \in {408, 429, 500, 502, 503, 504}
               \/ e.code \in {"ECONNRESET", "ETIMEDOUT"}
            /\ retry.calls < retry.maxAttempts )
          => retry.pc # "rejected"

\* d = min(baseDelay * 2^(k-2), maxDelay) for the attempt k the sleep precedes
CappedDelay(rt) == Min(rt.baseDelay * 2 ^ (rt.attempt - 1), rt.maxDelay)

\* C15 (as claimed): the delay slept before attempt k lies within
\* [0.75 d, 1.25 d], d = min(baseDelay * 2^(k-2), maxDelay).
C15_DelayWithinQuarter ==
  retry.pc = "sleep" =>
    /\ 3 * CappedDelay(retry) <= 4 * retry.delay
    /\ 4 * retry.delay <= 5 * CappedDelay(retry)

\* C15 (amended): the delay slept before attempt k is a whole number of
\* milliseconds within (0.75 d - 1, 1.25 d]: at least floor(0.75 d).
C15_DelayWithinQuarterFloored ==
  retry.pc = "sleep" =>
    /\ 3 * CappedDelay(retry) - 4 < 4 * retry.delay
    /\ 4 * retry.delay <= 5 * CappedDelay(retry)

\* the sleep before the third attempt, capped by maxDelay
C15_Witness ==
  /\ retry.pc = "sleep"
  /\ retry.attempt = 2
  /\ retry.baseDelay * 2 > retry.maxDelay
  /\ CappedDelay(retry) = retry.maxDelay
  /\ retry.delay > 0

\* C16 (as claimed): a page request of a listing that fails with a retryable
\* error is retried up to the attempt limit before the listing fails; a
\* single-item getter makes one request per call; the error a call raises
\* carries the HTTP status of the error that caused it.
C16_ListingsAreRetried ==
  /\ (listing.pc = "threw" /\ listing.method \in ListingMethods
        /\ GitHubShouldRetry(listing.err)) =>
       listing.tries = GitHubMaxAttempts
  /\ listing.method \in SingleGetters => listing.requests <= 1
  /\ listing.pc = "threw" =>
       HttpStatus(listing.thrown) = HttpStatus(listing.err)

C18_ListingsStopAtCeiling ==
  listing.method \in ListingMethods =>
    /\ (listing.requests > 0 /\ listing.lastLength < PerPage
          /\ listing.pc # "threw") => listing.pc = "returned"
    /\ listing.requests <= 1100

\* results and errors account for the items: every item whose worker succeeded
\* is in results, every other one's reason in errors, nothing else, in order
Accounts(got, items, failed) ==
  /\ Len(got.results) + Len(got.errors) = Len(items)
  /\ \A k \in DOMAIN items :
       /\ (items[k] \notin failed) = (items[k] \in Range(got.results))
       /\ (items[k] \in failed) = (items[k] \in Range(got.errors))
  /\ Range(got.results) \cup Range(got.errors) \subseteq Range(items)
  /\ \A a, b \in DOMAIN got.results :
       a < b =>
         \E x, y \in DOMAIN items :
           x < y /\ items[x] = got.results[a] /\ items[y] = got.results[b]

\* C19: parallelProcessSafe never rejects and returns {results, errors} with
\* results.length + errors.length = items.length, results the values of the
\* items whose worker succeeded and errors the reasons of the others; in the
\* users stage a failed profile fetch fails neither the stage nor the run, and
\* every member whose fetch succeeded is upserted.
C19_SettleAllKeepsTheSuccesses ==
  \A p \in Runs :
    /\ run[p].fatal # "users"
    /\ run[p].usersRan => run[p].pc \in {"finalize", "done", "failed"}
    /\ \A pr \in run[p].profiles :
         /\ Accounts(pr.got, OrganizationMembers[pr.org], pr.failed)
         /\ \A m \in Range(OrganizationMembers[pr.org]) \ pr.failed :
              Has(users, [githubId |-> UserDetails[m].id, login |-> m])

\* the profile of alice could not be fetched; bob was upserted and the run
\* completed
C19_Witness ==
  \E p \in Runs :
    /\ run[p].pc = "done"
    /\ \E pr \in run[p].profiles :
         /\ pr.failed = {"alice"}
         /\ pr.got.results = <<"bob">>
         /\ pr.got.errors = <<"alice">>
    /\ Has(users, [login |-> "bob"])
    /\ ~Has(users, [login |-> "alice"])

\* C20 (as claimed): for every concurrency and every failure pattern the call
\* never rejects, and when it resolves the worker has run on every item and
\* results and errors together account for every item.
C20_SettleAllForEveryConcurrency ==
  /\ batch.pc # "rejected"
  /\ batch.pc = "resolved" =>
       /\ \A k \in DOMAIN batch.status : batch.status[k] # "new"
       /\ Len(batch.results) + Len(batch.errors) = batch.n
       /\ Range(batch.results) = (1 .. batch.n) \ batch.fails
       /\ Range(batch.errors) = batch.fails

\* C21: while processConcurrently runs, the workers started and not yet settled
\* never number more than `concurrency`, whether the list is shorter than, as
\* long as or longer than concurrency, and in whatever order the workers
\* settle.
C21_InFlightWithinConcurrency ==
  Cardinality(InFlight(batch)) <= batch.concurrency

\* three items under a limit of two: the first has settled, the other two are
\* in flight and the loop waits for one of them
C21_Witness ==
  /\ batch.n = 3 /\ batch.batchSize = 3 /\ batch.concurrency = 2
  /\ batch.pc = "race"
  /\ batch.status[1] = "fulfilled"
  /\ InFlight(batch) = {2, 3}

\* C22 (as claimed): in the users stage the profile fetches of an organization
\* run under a concurrency cap: however many members it has, the getUser calls
\* in flight at the same time never number more than the batch utility's cap.
C22_ProfileFetchesAreCapped ==
  Cardinality(GetUserInFlight(fanout)) <= DefaultConcurrency

\* the snapshot of integration i is in the store: written, and its
\* time-to-live (time until reset, at least 60 s) has not run out
SnapshotLive(i) ==
  /\ quota.cache[i] # <<>>
  /\ quota.clock < quota.cache[i][1].expires

Complete(h) ==
  h.limit # Absent /\ h.remaining # Absent /\ h.reset # Absent /\ h.used # Absent

\* C24 (as claimed): once the quota headers of a response have been received,
\* the snapshot stored for the integration carries exactly their values
\* {limit, remaining, reset, used}, remaining = 0 and used = 0 included.
C24_SnapshotCarriesTheHeaders ==
  \A i \in Integrations :
    (quota.received[i] # <<>> /\ Complete(quota.received[i][1])) =>
      LET h == quota.received[i][1]
      IN quota.info[i] = [limit |-> h.limit, remaining |-> h.remaining,
                          reset |-> h.reset * 1000, used |-> h.used]

\* the collections a sweep of `coll` must leave alone
OthersKept(coll) ==
  /\ (coll # "commits" => commits' = commits)
  /\ (coll # "pulls" => pulls' = pulls)
  /\ (coll # "issues" => issues' = issues)
  /\ (coll # "changelogs" => changelogs' = changelogs)
  /\ (coll # "repos" => repos' = repos)
  /\ (coll # "users" => users' = users)
  /\ organizations' = organizations

\* C25: a retention sweep with window N days deletes exactly the records last
\* synced strictly before now - N days that pass the entity's filter (closed
\* for pulls and issues, archived or disabled for repositories, none for
\* commits, changelogs and users) and leaves every other record and every
\* other collection unchanged; a record synced at or after the cutoff, an open
\* pull or issue of any age and a repository neither archived nor disabled
\* are never deleted.
C25_SweepDeletesExactlyTheExpired ==
  /\ [][\A n \in Windows :
          /\ CleanupOldCommits(n) =>
               /\ commits' = {d \in commits : d.syncedAt >= Today - n}
               /\ OthersKept("commits")
          /\ CleanupOldChangelogs(n) =>
               /\ changelogs' = {d \in changelogs : d.syncedAt >= Today - n}
               /\ OthersKept("changelogs")
          /\ CleanupInactiveUsers(n) =>
               /\ users' = {d \in users : d.syncedAt >= Today - n}
               /\ OthersKept("users")
          /\ CleanupOldPulls(n) =>
               /\ pulls' = {d \in pulls :
                              d.state # "closed" \/ d.syncedAt >= Today - n}
               /\ OthersKept("pulls")
          /\ CleanupOldIssues(n) =>
               /\ issues' = {d \in issues :
                               d.state # "closed" \/ d.syncedAt >= Today - n}
               /\ OthersKept("issues")
          /\ CleanupInactiveRepos(n) =>
               /\ repos' = {d \in repos :
                              \/ ~d.archived /\ ~d.disabled
                              \/ d.syncedAt >= Today - n}
               /\ OthersKept("repos")]_vars
  /\ [](LET found == retention.initial[1]
        IN /\ \A d \in found.pulls : d.state = "open" => d \in pulls
           /\ \A d \in found.issues : d.state = "open" => d \in issues
           /\ \A d \in found.repos :
                (~d.archived /\ ~d.disabled) => d \in repos
           /\ \A d \in found.commits : d.syncedAt = Today => d \in commits
           /\ \A d \in found.changelogs : d.syncedAt = Today => d \in changelogs
           /\ \A d \in found.users : d.syncedAt = Today => d \in users
           /\ commits \subseteq found.commits /\ pulls \subseteq found.pulls
           /\ issues \subseteq found.issues /\ repos \subseteq found.repos
           /\ changelogs \subseteq found.changelogs
           /\ users \subseteq found.users)

\* the closed pull of acme/api, synced a day before the cutoff, has been swept;
\* the open issue of the same age, the repository (old, but neither archived
\* nor disabled) and the commit synced today are still there, and the commit
\* of acme/api is gone
C25_Witness ==
  LET found == retention.initial[1]
  IN /\ \E p \in found.pulls \ pulls :
          /\ p.state = "closed" /\ p.syncedAt < Today - 365
          /\ \E i \in issues : i.state = "open" /\ i.syncedAt = p.syncedAt
     /\ \E r \in repos :
          ~r.archived /\ ~r.disabled /\ r.syncedAt < Today - 730
     /\ \E c \in found.commits \ commits : c.syncedAt < Today - 180
     /\ \E c \in commits : c.syncedAt = Today

\* the documents a finished sweep has removed for good: none is left that is
\* older than the default window and passes the filter
SweptClean(sweep) ==
  \A d \in CollectionOf(sweep) :
    \/ d.syncedAt >= Today - RetentionPeriods[sweep]
    \/ sweep \in {"pulls", "issues"} /\ d.state # "closed"
    \/ sweep = "inactiveRepos" /\ ~d.archived /\ ~d.disabled

\* C26: runFullCleanup starts all six sweeps and returns a report whatever
\* subset of them fails: every sweep that did not fail has run to completion,
\* a failed one has left its collection alone, `cleanups` has one entry per
\* sweep in order (the sweep's result, or {success: false, error}),
\* totalDeleted is the sum of deletedCount over the sweeps that succeeded, the
\* number of documents gone, and `success` is true exactly when no sweep
\* failed.
C26_FullCleanupToleratesFailures ==
  [][\A failing \in SUBSET Range(Sweeps) :
       RunFullCleanup(failing) =>
         LET r == retention'.report[1]
             gone(sweep) == Cardinality(CollectionOf(sweep))
                              - Cardinality(CollectionOf(sweep)')
         IN /\ Len(r.cleanups) = 6
            /\ \A k \in 1 .. 6 :
                 LET sweep == Sweeps[k]
                 IN IF sweep \in failing
                    THEN /\ r.cleanups[k].success = FALSE
                         /\ r.cleanups[k].error = sweep
                         /\ CollectionOf(sweep)' = CollectionOf(sweep)
                    ELSE /\ r.cleanups[k].success = TRUE
                         /\ r.cleanups[k].entity = EntityOf[sweep]
                         /\ r.cleanups[k].deletedCount = gone(sweep)
                         /\ CollectionOf(sweep)' \subseteq CollectionOf(sweep)
                         /\ SweptClean(sweep)'
            /\ r.totalDeleted =
                 gone("commits") + gone("pulls") + gone("issues")
                   + gone("changelogs") + gone("inactiveRepos")
                   + gone("inactiveUsers")
            /\ r.success = (failing = {})]_vars

\* the pulls sweep and the users sweep failed: the report says so, the closed
\* pull past its window is still there, and the four other sweeps deleted
\* their expired documents
C26_Witness ==
  /\ retention.report # <<>>
  /\ LET r == retention.report[1]
     IN /\ r.failing = {"pulls", "inactiveUsers"}
        /\ r.success = FALSE
        /\ r.cleanups[2].success = FALSE
        /\ r.cleanups[1].deletedCount = 1
        /\ r.totalDeleted = 4
  /\ \E p \in pulls : p.state = "closed" /\ p.syncedAt < Today - 365

\* C30 (as claimed): referential integrity survives retention: after any
\* sequence of sweeps over a synced store every remaining Commit, Pull and
\* Issue references a Repo that still exists and every remaining Changelog
\* references an Issue that still exists.
C30_NoOrphansAfterSweeps ==
  /\ \A c \in commits \cup pulls \cup issues :
       \E r \in repos : r.id = c.repoId
  /\ \A l \in changelogs : \E i \in issues : i.id = l.issueId

TerminalStatuses == {"completed", "error"}

\* C27 (as claimed): whenever a full-sync run has terminated, by returning or
\* by throwing, and no other run of the integration is under way, the progress
\* entry of the integration, in the process that ran it and in the shared
\* store, has a terminal status: it is never left at 'running'.
C27_TerminatedRunsLeaveTerminalStatus ==
  \A p \in Runs :
    LET r == run[p]
        entry == GetSyncProgress(syncProgress, ProcOf[r.mode], r.integ)
    IN (Terminated(r) /\ OnlyActiveRun(p)) =>
         /\ entry # <<>> => entry[1].status \in TerminalStatuses
         /\ redis[r.integ] # <<>> => redis[r.integ][1].status \in TerminalStatuses

\* C28 (as claimed): the removal a completed run schedules removes only that
\* run's own final entry: while a full sync is running (and was not
\* cancelled), the progress entry of its integration is there, in the process
\* that runs it and in the shared store, whatever removals earlier runs left
\* pending.
C28_DelayedRemovalSparesNewRuns ==
  \A p \in Runs :
    LET r == run[p]
    IN (r.pc # "idle" /\ ~Terminated(r) /\ r.cancels = 0) =>
         /\ GetSyncProgress(syncProgress, ProcOf[r.mode], r.integ) # <<>>
         /\ redis[r.integ] # <<>>


\* C29: a commit, pull, issue or user job whose stage failed to fetch has not
\* completed: its attempt is counted, failedReason is set, and it waits for
\* the next attempt or has failed; a completed job's stage fetched its data.
C29_StageJobsReportStageFailures ==
  (job.kind \in QuietKinds /\ job.stage = "fetchFail") =>
    /\ job.pc \in {"waiting", "failed"}
    /\ job.attemptsMade >= 1
    /\ job.failedReason # "-"
    /\ job.returnvalue = <<>>

====
